---------------------------- MODULE Spec2Model ----------------------------
(***************************************************************************)
(* A model of the fortnite.gg scraper (src/uefn_scraper/fortnite_gg.py)    *)
(* and of the bot's storage, reminders and caches (src/bot.py).            *)
(*                                                                         *)
(* Text is a sequence of one-character strings, so that the substring      *)
(* tests, the regular expressions and the number conversions of the code   *)
(* are computed character by character.  An Optional value is a set with   *)
(* at most one element: None is {} and Some(v) is {v}.                     *)
(***************************************************************************)
EXTENDS Integers, Sequences, FiniteSets, TLC

VARIABLES
    delay,      \* FortniteGGCreativeScraper.delay, in tenths of a second
    pc,         \* position of the running call
    call,       \* the call in progress and its arguments
    page,       \* local `page` of the running pagination loop
    seen,       \* local `seen_pages` / `seen`
    data,       \* Optional: the envelope decoded for the current page
    pending,    \* entries of the current page not yet yielded
    items,      \* local `items` of fetch_creator_stats
    result,     \* Optional: the value returned by the call
    log,        \* what the scraper did: requests, sleeps, decodes, yields, raise/return
    served,     \* what the site answered to each request, in order
    html_in,    \* the fragment handed to parse_islands_html (parser runs)
    parsed,     \* Optional: the entries parse_islands_html returned
    SUBS,       \* bot.py SUBS: chat key -> the chat's subscriptions and reminders
    ChatState,  \* bot.py STATE (a reserved word here): chat key -> the chat's settings
    _COUNTS_CACHE,  \* bot.py _COUNTS_CACHE: counter name -> time and value stored
    clock       \* the reading of time.time(), in seconds

botvars == <<SUBS, ChatState, _COUNTS_CACHE, clock>>
vars == <<delay, pc, call, page, seen, data, pending, items, result, log, served,
          html_in, parsed, SUBS, ChatState, _COUNTS_CACHE, clock>>

-----------------------------------------------------------------------------
(* Optional values *)

None == {}
Some(v) == {v}
The(o) == CHOOSE v \in o : TRUE

-----------------------------------------------------------------------------
(* Characters and text *)

DigitSeq == <<"0", "1", "2", "3", "4", "5", "6", "7", "8", "9">>
DigitChars == {DigitSeq[i] : i \in 1..10}
LowerSeq == <<"a", "b", "c", "d", "e", "f", "g", "h", "i", "j", "k", "l", "m",
              "n", "o", "p", "q", "r", "s", "t", "u", "v", "w", "x", "y", "z">>
UpperSeq == <<"A", "B", "C", "D", "E", "F", "G", "H", "I", "J", "K", "L", "M",
              "N", "O", "P", "Q", "R", "S", "T", "U", "V", "W", "X", "Y", "Z">>
LowerChars == {LowerSeq[i] : i \in 1..26}
UpperChars == {UpperSeq[i] : i \in 1..26}
SpaceChars == {" "}
\* A character str.isdigit() accepts and int() rejects (a superscript digit).
SuperscriptChars == {"^2"}

DigitVal(c) == CHOOSE d \in 0..9 : DigitSeq[d + 1] = c

\* int(s) for a non-empty string of ASCII digits
RECURSIVE StrToInt(_)
StrToInt(s) ==
    IF s = <<>> THEN 0
    ELSE StrToInt(SubSeq(s, 1, Len(s) - 1)) * 10 + DigitVal(s[Len(s)])

\* str(n) for n >= 0
RECURSIVE IntToStr(_)
IntToStr(n) ==
    IF n < 10 THEN <<DigitSeq[n + 1]>>
    ELSE IntToStr(n \div 10) \o <<DigitSeq[(n % 10) + 1]>>

\* `needle in hay`
Contains(hay, needle) ==
    \E i \in 0..(Len(hay) - Len(needle)) : SubSeq(hay, i + 1, i + Len(needle)) = needle

StartsWith(s, prefix) ==
    Len(s) >= Len(prefix) /\ SubSeq(s, 1, Len(prefix)) = prefix

\* str.lower(), on the ASCII letters
LowerChar(c) ==
    IF c \in UpperChars THEN LowerSeq[CHOOSE i \in 1..26 : UpperSeq[i] = c] ELSE c
Lower(s) == [i \in 1..Len(s) |-> LowerChar(s[i])]

\* str.strip()
Strip(s) ==
    LET keep == {i \in 1..Len(s) : s[i] \notin SpaceChars}
    IN  IF keep = {} THEN <<>>
        ELSE LET lo == CHOOSE i \in keep : \A j \in keep : i <= j
                 hi == CHOOSE i \in keep : \A j \in keep : i >= j
             IN  SubSeq(s, lo, hi)

\* s.replace(old, ""), for a non-empty old: leftmost occurrences, left to right
RECURSIVE Remove(_, _)
Remove(s, old) ==
    IF Len(s) < Len(old) THEN s
    ELSE IF SubSeq(s, 1, Len(old)) = old THEN Remove(SubSeq(s, Len(old) + 1, Len(s)), old)
    ELSE <<s[1]>> \o Remove(SubSeq(s, 2, Len(s)), old)

Sum(f) ==
    LET RECURSIVE Acc(_)
        Acc(n) == IF n = 0 THEN 0 ELSE Acc(n - 1) + f[n]
    IN  Acc(Len(f))

\* the concatenation of a sequence of sequences
RECURSIVE Flatten(_)
Flatten(ss) == IF ss = <<>> THEN <<>> ELSE ss[1] \o Flatten(Tail(ss))

-----------------------------------------------------------------------------
(* Text constants of the source *)

BASE == <<"h", "t", "t", "p", "s", ":", "/", "/", "f", "o", "r", "t", "n", "i", "t",
          "e", ".", "g", "g">>
CodeEq == <<"c", "o", "d", "e", "=">>
PageEq == <<"p", "a", "g", "e", "=">>
CreativePageEq == <<"/", "c", "r", "e", "a", "t", "i", "v", "e", "?", "p", "a", "g",
                    "e", "=">>
CreativeHidePageEq == <<"/", "c", "r", "e", "a", "t", "i", "v", "e", "?", "h", "i", "d",
                        "e", "e", "p", "i", "c", "&", "p", "a", "g", "e", "=">>
CreatorPageEq == <<"/", "c", "r", "e", "a", "t", "o", "r", "?", "n", "a", "m", "e", "=",
                   "x", "&", "p", "a", "g", "e", "=">>
LblMinutesPlayed == <<"M", "i", "n", "u", "t", "e", "s", " ", "P", "l", "a", "y", "e", "d">>
Lbl24hPlays == <<"2", "4", "h", " ", "P", "l", "a", "y", "s">>
Lbl24hFavorites == <<"2", "4", "h", " ", "F", "a", "v", "o", "r", "i", "t", "e", "s">>
Lbl24hRecommends == <<"2", "4", "h", " ", "R", "e", "c", "o", "m", "m", "e", "n", "d", "s">>
Lbl24hPlayers == <<"2", "4", "h", " ", "P", "l", "a", "y", "e", "r", "s">>
Lbl24hAvgPlaytime == <<"2", "4", "h", " ", "A", "v", "g", " ", "P", "l", "a", "y", "t",
                       "i", "m", "e">>
Lbl24hRetention == <<"2", "4", "h", " ", "R", "e", "t", "e", "n", "t", "i", "o", "n">>

-----------------------------------------------------------------------------
(* Markup extractor *)

\* _parse_int: None for None or "", else the digit runs of the text with the
\* commas removed, joined and read as one integer; None when there is no digit.
_parse_int(text) ==
    IF text = None \/ The(text) = <<>> THEN None
    ELSE LET nocomma == SelectSeq(The(text), LAMBDA c : c # ",")
             joined == SelectSeq(nocomma, LAMBDA c : c \in DigitChars)
         IN  IF joined = <<>> THEN None ELSE Some(StrToInt(joined))

\* el.get_text(strip=True) / get_text(" ", strip=True) of an element holding one
\* text node
get_text(el_text) == Strip(el_text)

\* rank of a card: the text of its .rank child when that is all digits
CardRank(a) ==
    IF a.rank = None THEN None                       \* {}.get_text: AttributeError
    ELSE LET rank_text == get_text(The(a.rank))
             isdigit == rank_text # <<>> /\
                        \A i \in 1..Len(rank_text) :
                            rank_text[i] \in DigitChars \cup SuperscriptChars
         IN  IF ~isdigit THEN None
             ELSE IF \E i \in 1..Len(rank_text) : rank_text[i] \in SuperscriptChars
                  THEN None                          \* int(): ValueError
             ELSE Some(StrToInt(rank_text))

\* re.search(r"code=([0-9\-a-z_]+)", href).group(1)
CodeChars == DigitChars \cup LowerChars \cup {"-", "_"}
CardCode(href) ==
    IF href = None \/ The(href) = <<>> THEN None
    ELSE LET h == The(href)
             starts == {i \in 1..Len(h) :
                          /\ i + 5 <= Len(h)
                          /\ SubSeq(h, i, i + 4) = CodeEq
                          /\ h[i + 5] \in CodeChars}
         IN  IF starts = {} THEN None
             ELSE LET s == (CHOOSE i \in starts : \A j \in starts : i <= j) + 5
                      ends == {e \in s..Len(h) :
                                 /\ \A k \in s..e : h[k] \in CodeChars
                                 /\ (e = Len(h) \/ h[e + 1] \notin CodeChars)}
                  IN  Some(SubSeq(h, s, CHOOSE e \in ends : TRUE))

\* stat(label): the first .table-stat row whose span text equals the label,
\* ignoring case; its text with the span text removed, stripped
RECURSIVE stat(_, _)
stat(rows, label) ==
    IF rows = <<>> THEN None
    ELSE LET ts == rows[1]
         IN  IF ts.span # None /\ Lower(get_text(The(ts.span))) = Lower(label)
             THEN LET span_text == get_text(The(ts.span))
                      row_text == get_text(ts.text)
                  IN  Some(Strip(IF span_text = <<>> THEN row_text
                                 ELSE Remove(row_text, span_text)))
             ELSE stat(Tail(rows), label)

\* one CreativeListItem, from one a.island element
CardItem(a) ==
    [rank |-> CardRank(a),
     code |-> CardCode(a.href),
     title |-> IF a.title = None THEN None ELSE Some(get_text(The(a.title))),
     href |-> IF a.href = None \/ The(a.href) = <<>> THEN None
              ELSE Some(BASE \o The(a.href)),
     image |-> IF a.img = None THEN None ELSE The(a.img).src,
     image_alt |-> IF a.img = None THEN None ELSE The(a.img).alt,
     players_now_pretty |-> IF a.players = None THEN None
                            ELSE Some(get_text(The(a.players))),
     players_now |-> _parse_int(IF a.ccu = None THEN None
                                ELSE Some(get_text(The(a.ccu)))),
     all_time_peak |-> _parse_int(IF a.peak = None THEN None
                                  ELSE Some(get_text(The(a.peak)))),
     minutes_played |-> stat(a.stats, LblMinutesPlayed),
     plays_24h |-> stat(a.stats, Lbl24hPlays),
     favorites_24h |-> stat(a.stats, Lbl24hFavorites),
     recommends_24h |-> stat(a.stats, Lbl24hRecommends),
     players_24h |-> stat(a.stats, Lbl24hPlayers),
     avg_playtime_24h |-> stat(a.stats, Lbl24hAvgPlaytime),
     retention_24h |-> stat(a.stats, Lbl24hRetention),
     by_epic |-> "byepic" \in a.classes]

\* soup.select("a.island")
IsIslandCard(el) == el.tag = "a" /\ "island" \in el.classes

\* a variant that puts each new entry in front of the list
RECURSIVE parse_islands_html_reversed(_)
parse_islands_html_reversed(html) ==
    IF html = <<>> THEN <<>>
    ELSE IF IsIslandCard(html[1])
         THEN parse_islands_html_reversed(Tail(html)) \o <<CardItem(html[1])>>
         ELSE parse_islands_html_reversed(Tail(html))

\* a variant that drops the cards whose link holds no code
RECURSIVE parse_islands_html_skipnocode(_)
parse_islands_html_skipnocode(html) ==
    IF html = <<>> THEN <<>>
    ELSE IF IsIslandCard(html[1]) /\ CardCode(html[1].href) # None
         THEN <<CardItem(html[1])>> \o parse_islands_html_skipnocode(Tail(html))
         ELSE parse_islands_html_skipnocode(Tail(html))

\* parse_islands_html: the loop over the document's elements, in document order
RECURSIVE parse_islands_html(_)
parse_islands_html(html) ==
    IF html = <<>> THEN <<>>
    ELSE IF IsIslandCard(html[1])
         THEN <<CardItem(html[1])>> \o parse_islands_html(Tail(html))
         ELSE parse_islands_html(Tail(html))

-----------------------------------------------------------------------------
(* Bounds and inputs *)

\* the largest page number the site's page links point at (besides FarPage)
MaxLink == 3
\* the largest explicit page cap a caller passes
MaxCap == 2
\* a page far beyond the next one, whose number starts with the digit 2
FarPage == 20
\* the largest number of elements of a fragment handed to the extractor alone
MaxElems == 3

\* dict helpers: a dict is a function from keys (strings) to text
EmptyDict == [k \in {} |-> <<>>]
DictSet(d, k, v) == [x \in (DOMAIN d) \cup {k} |-> IF x = k THEN v ELSE d[x]]

NoCard == [tag |-> "div", classes |-> {"ad"}, href |-> None, rank |-> None,
           title |-> None, img |-> None, players |-> None, ccu |-> None,
           peak |-> None, stats |-> <<>>]
\* a complete card, 10 players now
CardA == [NoCard EXCEPT !.tag = "a", !.classes = {"island"},
            !.href = Some(<<"/", "i", "s", "l", "a", "n", "d", "?", "c", "o", "d", "e",
                            "=", "1", "2", "-", "a", "b">>),
            !.rank = Some(<<" ", "1", " ">>), !.title = Some(<<"A">>),
            !.ccu = Some(<<"1", "0">>), !.peak = Some(<<"1", ",", "2", "0", "0">>)]
\* a card with no rank, no code and no player count
CardB == [NoCard EXCEPT !.tag = "a", !.classes = {"island", "byepic"},
            !.href = Some(<<"/", "i", "s", "l", "a", "n", "d">>), !.title = Some(<<"B">>)]
\* a card with 5 players now
CardC == [NoCard EXCEPT !.tag = "a", !.classes = {"island"},
            !.href = Some(<<"/", "i", "s", "l", "a", "n", "d", "?", "c", "o", "d", "e",
                            "=", "7">>),
            !.rank = Some(<<"3">>), !.title = Some(<<"C">>), !.ccu = Some(<<"5">>)]
\* an anchor that is no island card
PlainLink == [NoCard EXCEPT !.tag = "a", !.classes = {"more"},
                !.href = Some(<<"/", "x">>)]

\* the "islands" fragments the site serves
IslandFragments == {<<>>, <<CardA, NoCard, CardB>>}

\* a page-links fragment: one anchor per linked page
RECURSIVE RenderLinks(_, _)
RenderLinks(prefix, ns) ==
    IF ns = <<>> THEN <<>>
    ELSE <<"<">> \o prefix \o IntToStr(ns[1]) \o <<">">> \o RenderLinks(prefix, Tail(ns))

LinkLists ==
    {<<>>, <<FarPage>>, <<1, 3>>} \cup {<<n>> : n \in 1..MaxLink}

\* the links as the site writes them, and with another parameter before `page`
CreativePagesFragments ==
    {RenderLinks(CreativePageEq, ns) : ns \in LinkLists}
        \cup {RenderLinks(CreativeHidePageEq, <<2>>)}
CreatorPagesFragments == {RenderLinks(CreatorPageEq, ns) : ns \in LinkLists}
\* the fragment that links to page 2 alone
NextOnly(prefix) == RenderLinks(prefix, <<2>>)

\* decoded JSON: an object with optional "islands" and "pages", or not an object
Envelope(i, p) == [isdict |-> TRUE, islands |-> i, pages |-> p]
NotDict == [isdict |-> FALSE, islands |-> None, pages |-> None]
Envelopes(PagesFragments) ==
    {Envelope(Some(i), Some(p)) : i \in IslandFragments, p \in PagesFragments}
        \cup {Envelope(None, None)}

\* a listing response: the status, what r.json() gives and what json.loads(r.text)
\* gives (None: the decoder raises)
ListingResponses(PagesFragments, prefix) ==
    {[status |-> 503, json |-> None, text |-> None]}
        \cup {[status |-> 200, json |-> Some(e), text |-> Some(e)] :
                e \in Envelopes(PagesFragments) \cup {NotDict}}
        \cup {[status |-> 200, json |-> None,
               text |-> Some(Envelope(Some(<<CardC>>), Some(NextOnly(prefix))))]}
        \cup {[status |-> 200, json |-> None, text |-> None]}

CallerParams == {None, Some(DictSet(EmptyDict, "sort", <<"n">>))}
PageCaps == {None} \cup {Some(n) : n \in 0..MaxCap}
Delays == {0, 3}

\* Python truthiness of an Optional[int]
Truthy(o) == o # None /\ The(o) # 0

-----------------------------------------------------------------------------
(* Log events *)

Req(path, params) == [ev |-> "req", path |-> path, params |-> params]
Slept == [ev |-> "sleep"]
Decoded(how) == [ev |-> "decode", how |-> how]
Yielded(item) == [ev |-> "yield", item |-> item]
Raised(what) == [ev |-> "raise", what |-> what]
Returned == [ev |-> "return"]

\* _sleep: time.sleep(self.delay) unless the delay is 0
_sleep == IF delay # 0 THEN <<Slept>> ELSE <<>>

-----------------------------------------------------------------------------
(* Paginated fetcher: iter_creative_list *)

\* the clock when bot.py is loaded
Epoch == 1700000000
\* bot.py right after it is loaded with no saved files: SUBS and STATE are empty
\* and the counts cache holds no time and no value
BotLoaded ==
    /\ SUBS = EmptyDict
    /\ ChatState = EmptyDict
    /\ _COUNTS_CACHE = [fortnite |-> [ts |-> None, val |-> None],
                        uefn |-> [ts |-> None, val |-> None]]
    /\ clock = Epoch

Init ==
    /\ delay \in Delays
    /\ pc = "idle"
    /\ call = [op |-> "none"]
    /\ page = 0
    /\ seen = 0
    /\ data = None
    /\ pending = <<>>
    /\ items = <<>>
    /\ result = None
    /\ log = <<>>
    /\ served = <<>>
    /\ html_in = <<>>
    /\ parsed = None
    /\ BotLoaded

\* a variant that builds the query of a later page from the page number alone
creative_query_fresh(pg, params) ==
    IF pg > 1 THEN DictSet(DictSet(EmptyDict, "page", IntToStr(pg)), "ajax", <<>>)
    ELSE DictSet(IF params = None THEN EmptyDict ELSE The(params), "ajax", <<>>)

\* the query of fetch_creative_page: the caller's params, the page when it is
\* beyond the first, and the ajax marker
creative_query(pg, params) ==
    LET p0 == IF params = None THEN EmptyDict ELSE The(params)
        p1 == IF pg > 1 THEN DictSet(p0, "page", IntToStr(pg)) ELSE p0
    IN  DictSet(p1, "ajax", <<>>)

\* a variant without raise_for_status
fetch_creative_page_nostatus(pg, params, resp) ==
    LET req == Req("/creative", creative_query(pg, params))
    IN  IF resp.json # None
        THEN [log |-> <<req>> \o _sleep \o <<Decoded("json")>>, data |-> resp.json]
        ELSE IF resp.text # None
        THEN [log |-> <<req>> \o _sleep \o <<Decoded("json"), Decoded("text")>>,
              data |-> resp.text]
        ELSE [log |-> <<req>> \o _sleep
                        \o <<Decoded("json"), Decoded("text"), Raised("JSONDecodeError")>>,
              data |-> None]

\* a variant without the raw-text fallback
fetch_creative_page_nofallback(pg, params, resp) ==
    LET req == Req("/creative", creative_query(pg, params))
    IN  IF resp.status # 200
        THEN [log |-> <<req, Raised("HTTPError")>>, data |-> None]
        ELSE IF resp.json # None
        THEN [log |-> <<req>> \o _sleep \o <<Decoded("json")>>, data |-> resp.json]
        ELSE [log |-> <<req>> \o _sleep \o <<Decoded("json"), Raised("JSONDecodeError")>>,
              data |-> None]

\* fetch_creative_page against the response resp: what it logs, and the decoded
\* envelope (None when it raises)
fetch_creative_page(pg, params, resp) ==
    LET req == Req("/creative", creative_query(pg, params))
    IN  IF resp.status # 200
        THEN [log |-> <<req, Raised("HTTPError")>>, data |-> None]
        ELSE IF resp.json # None
        THEN [log |-> <<req>> \o _sleep \o <<Decoded("json")>>, data |-> resp.json]
        ELSE IF resp.text # None
        THEN [log |-> <<req>> \o _sleep \o <<Decoded("json"), Decoded("text")>>,
              data |-> resp.text]
        ELSE [log |-> <<req>> \o _sleep
                        \o <<Decoded("json"), Decoded("text"), Raised("JSONDecodeError")>>,
              data |-> None]

\* merged_params of iter_creative_list
merged_params(params, hide_epic) ==
    LET p0 == IF params = None THEN EmptyDict ELSE The(params)
    IN  IF hide_epic THEN DictSet(p0, "hideepic", <<>>) ELSE p0

\* `max_pages and seen_pages >= max_pages`
cap_reached(max_pages, seen_pages) == Truthy(max_pages) /\ seen_pages >= The(max_pages)

\* a variant that takes any page link for a link to the next page
creative_has_next_any(pages_html, pg) == Contains(pages_html, CreativePageEq)

\* `f"/creative?page={page+1}" in pages_html`
creative_has_next(pages_html, pg) ==
    Contains(pages_html, CreativePageEq \o IntToStr(pg + 1))

\* data.get(key, "") of a decoded object
GetOr(field) == IF field = None THEN <<>> ELSE The(field)

Call_iter_creative_list ==
    /\ pc = "idle"
    /\ \E max_pages \in PageCaps, params \in CallerParams, hide_epic \in BOOLEAN :
         call' = [op |-> "iter_creative_list", max_pages |-> max_pages,
                  params |-> params, hide_epic |-> hide_epic]
    /\ page' = 1
    /\ seen' = 0
    /\ pc' = "iter_fetch"
    /\ UNCHANGED <<delay, data, pending, items, result, log, served, html_in, parsed>>
    /\ UNCHANGED botvars

\* the generator runs from the top of the loop to its first yield of the page
IterFetch ==
    /\ pc = "iter_fetch"
    /\ \E resp \in ListingResponses(CreativePagesFragments, CreativePageEq) :
         LET out == fetch_creative_page(
                        page, Some(merged_params(call.params, call.hide_epic)), resp)
         IN  /\ served' = Append(served, resp)
             /\ IF out.data = None
                THEN /\ log' = log \o out.log
                     /\ pc' = "raised"
                     /\ UNCHANGED <<data, pending>>
                ELSE IF ~The(out.data).isdict
                THEN /\ log' = log \o out.log \o <<Raised("AttributeError")>>
                     /\ pc' = "raised"
                     /\ UNCHANGED <<data, pending>>
                ELSE LET islands == parse_islands_html(GetOr(The(out.data).islands))
                     IN  /\ log' = log \o out.log
                         /\ data' = out.data
                         /\ pending' = islands
                         /\ pc' = IF islands = <<>> THEN "iter_advance" ELSE "iter_yield"
    /\ UNCHANGED <<delay, call, page, seen, items, result, html_in, parsed>>
    /\ UNCHANGED botvars

\* `yield item`
IterYield ==
    /\ pc = "iter_yield"
    /\ log' = Append(log, Yielded(Head(pending)))
    /\ pending' = Tail(pending)
    /\ pc' = IF Tail(pending) = <<>> THEN "iter_advance" ELSE "iter_yield"
    /\ UNCHANGED <<delay, call, page, seen, data, items, result, served, html_in, parsed>>
    /\ UNCHANGED botvars

\* after the last entry of the page: the cap, then the next-page detection
IterAdvance ==
    /\ pc = "iter_advance"
    /\ seen' = seen + 1
    /\ IF cap_reached(call.max_pages, seen')
       THEN /\ pc' = "done"
            /\ log' = Append(log, Returned)
            /\ page' = page
       ELSE IF creative_has_next(GetOr(The(data).pages), page)
       THEN /\ pc' = "iter_fetch"
            /\ page' = page + 1
            /\ log' = log
       ELSE /\ pc' = "done"
            /\ log' = Append(log, Returned)
            /\ page' = page
    /\ UNCHANGED <<delay, call, data, pending, items, result, served, html_in, parsed>>
    /\ UNCHANGED botvars

-----------------------------------------------------------------------------
(* Aggregation layer: fetch_creator_stats *)

\* s.split(sep), for a one-character separator
RECURSIVE Split(_, _)
Split(s, sep) ==
    IF \A i \in 1..Len(s) : s[i] # sep THEN <<s>>
    ELSE LET k == CHOOSE i \in 1..Len(s) : s[i] = sep /\ \A j \in 1..(i - 1) : s[j] # sep
         IN  <<SubSeq(s, 1, k - 1)>> \o Split(SubSeq(s, k + 1, Len(s)), sep)

Http == <<"h", "t", "t", "p">>
NameKey == <<"n", "a", "m", "e">>

\* urlparse(text).query: what follows the first "?", up to a "#"
UrlQuery(text) ==
    LET nofrag == Split(text, "#")[1]
        parts == Split(nofrag, "?")
    IN  IF Len(parts) = 1 THEN <<>>
        ELSE SubSeq(nofrag, Len(parts[1]) + 2, Len(nofrag))

\* parse_qs(query)[key]: the values of the key=value fields, blank values dropped,
\* "+" read as a space
QueryValues(query, key) ==
    LET fields == Split(query, "&")
        IsKey(f) == Len(f) > Len(key) + 1 /\ SubSeq(f, 1, Len(key) + 1) = key \o <<"=">>
        Value(f) == [i \in 1..(Len(f) - Len(key) - 1) |->
                        IF f[i + Len(key) + 1] = "+" THEN " " ELSE f[i + Len(key) + 1]]
        hits == SelectSeq(fields, IsKey)
    IN  [i \in 1..Len(hits) |-> Value(hits[i])]

\* a variant that takes every input verbatim
_extract_creator_name_verbatim(text) == IF text = <<>> THEN None ELSE Some(text)

\* _extract_creator_name
_extract_creator_name(text) ==
    IF text = <<>> THEN None
    ELSE IF StartsWith(text, Http) /\ QueryValues(UrlQuery(text), NameKey) # <<>>
    THEN Some(QueryValues(UrlQuery(text), NameKey)[1])
    ELSE Some(text)

\* the query of fetch_creator_page
creator_query(name, pg) ==
    LET p0 == DictSet(DictSet(EmptyDict, "name", name), "ajax", <<>>)
    IN  IF pg > 1 THEN DictSet(p0, "page", IntToStr(pg)) ELSE p0

\* fetch_creator_page against the response resp
fetch_creator_page(name, pg, resp) ==
    LET req == Req("/creator", creator_query(name, pg))
    IN  IF resp.status # 200
        THEN [log |-> <<req, Raised("HTTPError")>>, data |-> None]
        ELSE IF resp.json # None
        THEN [log |-> <<req>> \o _sleep \o <<Decoded("json")>>, data |-> resp.json]
        ELSE IF resp.text # None
        THEN [log |-> <<req>> \o _sleep \o <<Decoded("json"), Decoded("text")>>,
              data |-> resp.text]
        ELSE [log |-> <<req>> \o _sleep
                        \o <<Decoded("json"), Decoded("text"), Raised("JSONDecodeError")>>,
              data |-> None]

\* `f"page={page+1}" in str(pages_html)`
creator_has_next(pages_html, pg) == Contains(pages_html, PageEq \o IntToStr(pg + 1))

\* a variant that leaves the last item out of the sum
total_players_droplast(its) ==
    Sum([i \in 1..(Len(its) - 1) |->
            IF its[i].players_now = None THEN 0 ELSE The(its[i].players_now)])

\* sum([i.players_now or 0 for i in items])
total_players(its) ==
    Sum([i \in 1..Len(its) |->
            IF its[i].players_now = None THEN 0 ELSE The(its[i].players_now)])

CreatorX == <<"x">>
CreatorUrl == <<"h", "t", "t", "p", "s", ":", "/", "/", "f", "o", "r", "t", "n", "i", "t",
                "e", ".", "g", "g", "/", "c", "r", "e", "a", "t", "o", "r", "?", "n", "a",
                "m", "e", "=", "x">>
\* a URL with another parameter before the name, the name holding an encoded
\* space; a name that begins like a URL
CreatorUrlAB == BASE \o <<"/", "c", "r", "e", "a", "t", "o", "r", "?", "p", "a", "g", "e", "=", "2", "&", "n", "a", "m", "e", "=", "a", "+", "b">>
CreatorHttpx == <<"h", "t", "t", "p", "x">>
CreatorInputs == {CreatorX, CreatorUrl, CreatorUrlAB, CreatorHttpx}

\* the creator's full page, as the avatar lookup sees it
AvatarPage(img, og) == [kind |-> "page", img |-> img, og |-> og]
AvatarSrc == <<"/", "a", ".", "p", "n", "g">>
OgSrc == <<"/", "/", "o", ".", "p", "n", "g">>
AvatarResponses ==
    {[kind |-> "conn_error"], [kind |-> "http_error"], [kind |-> "unparsable"]}
        \cup {AvatarPage(img, og) :
                img \in {None, Some([src |-> None]), Some([src |-> Some(<<>>)]),
                         Some([src |-> Some(AvatarSrc)])},
                og \in {None, Some([content |-> Some(OgSrc)])}}

\* the avatar of a parsed page: the image's src, else the og:image content
page_avatar(pg) ==
    LET a1 == IF pg.img # None /\ The(pg.img).src # None THEN The(pg.img).src ELSE None
    IN  IF a1 = None \/ The(a1) = <<>>
        THEN IF pg.og # None /\ The(pg.og).content # None THEN The(pg.og).content ELSE a1
        ELSE a1

Call_fetch_creator_stats ==
    /\ pc = "idle"
    /\ \E name_or_url \in CreatorInputs, max_pages \in 0..MaxCap :
         call' = [op |-> "fetch_creator_stats", name_or_url |-> name_or_url,
                  max_pages |-> Some(max_pages),
                  name |-> IF _extract_creator_name(name_or_url) = None THEN name_or_url
                           ELSE The(_extract_creator_name(name_or_url))]
    /\ page' = 1
    /\ seen' = 0
    /\ items' = <<>>
    /\ pc' = "creator_fetch"
    /\ UNCHANGED <<delay, data, pending, result, log, served, html_in, parsed>>
    /\ UNCHANGED botvars

\* one turn of the loop of fetch_creator_stats
CreatorFetch ==
    /\ pc = "creator_fetch"
    /\ \E resp \in ListingResponses(CreatorPagesFragments, CreatorPageEq) :
         LET out == fetch_creator_page(call.name, page, resp)
         IN  /\ served' = Append(served, resp)
             /\ IF out.data = None
                THEN /\ log' = log \o out.log
                     /\ pc' = "raised"
                     /\ UNCHANGED <<data, items, seen, page>>
                ELSE IF ~The(out.data).isdict
                THEN /\ log' = log \o out.log \o <<Raised("AttributeError")>>
                     /\ pc' = "raised"
                     /\ UNCHANGED <<data, items, seen, page>>
                ELSE /\ log' = log \o out.log
                     /\ data' = out.data
                     /\ items' = items \o parse_islands_html(GetOr(The(out.data).islands))
                     /\ seen' = seen + 1
                     /\ IF cap_reached(call.max_pages, seen')
                        THEN pc' = "creator_avatar" /\ page' = page
                        ELSE IF creator_has_next(GetOr(The(out.data).pages), page)
                        THEN pc' = "creator_fetch" /\ page' = page + 1
                        ELSE pc' = "creator_avatar" /\ page' = page
    /\ UNCHANGED <<delay, call, pending, result, html_in, parsed>>
    /\ UNCHANGED botvars

\* a variant that lets a failure of the avatar request escape
CreatorAvatar_raises ==
    /\ pc = "creator_avatar"
    /\ \E resp \in AvatarResponses :
         /\ served' = Append(served, resp)
         /\ IF resp.kind = "page"
            THEN /\ log' = log \o <<Req("/creator", DictSet(EmptyDict, "name", call.name)),
                                    Returned>>
                 /\ result' = Some([name |-> call.name,
                                    total_players_now |-> total_players(items),
                                    total_maps |-> Len(items),
                                    items |-> items,
                                    avatar |-> page_avatar(resp)])
                 /\ pc' = "done"
            ELSE /\ log' = log \o <<Req("/creator", DictSet(EmptyDict, "name", call.name)),
                                    Raised("Exception")>>
                 /\ result' = result
                 /\ pc' = "raised"
    /\ UNCHANGED <<delay, call, page, seen, data, pending, items, html_in, parsed>>
    /\ UNCHANGED botvars

\* the totals, the best-effort avatar request and the return
CreatorAvatar ==
    /\ pc = "creator_avatar"
    /\ \E resp \in AvatarResponses :
         /\ served' = Append(served, resp)
         /\ log' = log \o <<Req("/creator", DictSet(EmptyDict, "name", call.name)),
                            Returned>>
         /\ result' = Some([name |-> call.name,
                            total_players_now |-> total_players(items),
                            total_maps |-> Len(items),
                            items |-> items,
                            avatar |-> IF resp.kind = "page" THEN page_avatar(resp)
                                       ELSE None])
    /\ pc' = "done"
    /\ UNCHANGED <<delay, call, page, seen, data, pending, items, html_in, parsed>>
    /\ UNCHANGED botvars

-----------------------------------------------------------------------------
(* Detail resolver: fetch_island_details *)

IslandQ == <<"/", "i", "s", "l", "a", "n", "d", "?">>
AmpAjax == <<"&", "a", "j", "a", "x">>
QAjax == <<"?", "a", "j", "a", "x">>
UrlOpen == <<"u", "r", "l", "(">>
HttpsColon == <<"h", "t", "t", "p", "s", ":">>
QuoteChars == {"'", "\""}

\* the detail URL of the input; None where split('?', 1)[1] raises IndexError
detail_url(code_or_url) ==
    IF StartsWith(code_or_url, Http) THEN Some(code_or_url)
    ELSE IF Contains(code_or_url, CodeEq)
    THEN IF \A i \in 1..Len(code_or_url) : code_or_url[i] # "?" THEN None
         ELSE LET k == Len(Split(code_or_url, "?")[1])
              IN  Some(BASE \o IslandQ \o SubSeq(code_or_url, k + 2, Len(code_or_url)))
    ELSE Some(BASE \o IslandQ \o CodeEq \o code_or_url)

\* the URL of the primary, fragment-mode request
ajax_url(url) == url \o (IF \E i \in 1..Len(url) : url[i] = "?" THEN AmpAjax ELSE QAjax)

\* the URL of the secondary request
non_ajax_url(url) == Split(url, "?")[1]

\* a variant that tests for a root-relative URL first
_norm_url_rootfirst(u) ==
    IF u = None \/ The(u) = <<>> THEN None
    ELSE IF StartsWith(The(u), <<"/">>) THEN Some(BASE \o The(u))
    ELSE IF StartsWith(The(u), <<"/", "/">>) THEN Some(HttpsColon \o The(u))
    ELSE u

\* _norm_url
_norm_url(u) ==
    IF u = None \/ The(u) = <<>> THEN None
    ELSE IF StartsWith(The(u), <<"/", "/">>) THEN Some(HttpsColon \o The(u))
    ELSE IF StartsWith(The(u), <<"/">>) THEN Some(BASE \o The(u))
    ELSE u

\* a variant that also takes a fourth group when one follows
code_search_fourgroups(text) ==
    LET IsCode(w) == \A k \in 1..14 :
                        IF k \in {5, 10} THEN w[k] = "-" ELSE w[k] \in DigitChars
        starts == {i \in 1..(Len(text) - 13) : IsCode(SubSeq(text, i, i + 13))}
    IN  IF starts = {} THEN None
        ELSE LET i == CHOOSE x \in starts : \A y \in starts : x <= y
                 more == /\ i + 18 <= Len(text) /\ text[i + 14] = "-"
                         /\ \A k \in (i + 15)..(i + 18) : text[k] \in DigitChars
             IN  Some(SubSeq(text, i, IF more THEN i + 18 ELSE i + 13))

\* re.search(r"(\d{4}-\d{4}-\d{4})", text).group(1)
code_search(text) ==
    LET IsCode(w) == \A k \in 1..14 :
                        IF k \in {5, 10} THEN w[k] = "-" ELSE w[k] \in DigitChars
        starts == {i \in 1..(Len(text) - 13) : IsCode(SubSeq(text, i, i + 13))}
    IN  IF starts = {} THEN None
        ELSE LET i == CHOOSE x \in starts : \A y \in starts : x <= y
             IN  Some(SubSeq(text, i, i + 13))

\* re.search(r"url\(['\"]?([^'\"]+)['\"]?\)", style).group(1)
style_url(style) ==
    LET GroupStart(i) == IF i + 4 <= Len(style) /\ style[i + 4] \in QuoteChars
                         THEN i + 5 ELSE i + 4
        Ends(i) == {e \in GroupStart(i)..Len(style) :
                      /\ \A k \in GroupStart(i)..e : style[k] \notin QuoteChars
                      /\ \/ (e + 1 <= Len(style) /\ style[e + 1] = ")")
                         \/ (e + 2 <= Len(style) /\ style[e + 1] \in QuoteChars
                               /\ style[e + 2] = ")")}
        starts == {i \in 1..(Len(style) - 3) :
                     SubSeq(style, i, i + 3) = UrlOpen /\ Ends(i) # {}}
    IN  IF starts = {} THEN None
        ELSE LET i == CHOOSE x \in starts : \A y \in starts : x <= y
                 e == CHOOSE x \in Ends(i) : \A y \in Ends(i) : x >= y
             IN  Some(SubSeq(style, GroupStart(i), e))

\* the image found on the fragment-mode page: thumbnail, else background style;
\* then og:image; then twitter:image
primary_image(pg) ==
    LET img1 == IF pg.thumb # None /\ The(pg.thumb).src # None
                THEN _norm_url(The(pg.thumb).src)
                ELSE IF pg.bg # None /\ The(pg.bg).style # None
                THEN _norm_url(style_url(The(The(pg.bg).style)))
                ELSE None
        img2 == IF img1 = None
                THEN IF pg.og # None /\ The(pg.og).content # None
                     THEN _norm_url(The(pg.og).content) ELSE None
                ELSE img1
    IN  IF img2 = None
        THEN IF pg.tw # None /\ The(pg.tw).content # None
             THEN _norm_url(The(pg.tw).content) ELSE None
        ELSE img2

\* the image found on the full page: og:image, else a thumbnail
secondary_image(pg) ==
    LET img1 == IF pg.og # None /\ The(pg.og).content # None
                THEN _norm_url(The(pg.og).content) ELSE None
    IN  IF img1 = None
        THEN IF pg.thumb # None /\ The(pg.thumb).src # None
             THEN _norm_url(The(pg.thumb).src) ELSE None
        ELSE img1

\* code: from the code display element, else from the whole body
detail_code(pg) ==
    LET c1 == IF pg.code_wrap # None THEN code_search(get_text(The(pg.code_wrap)))
              ELSE None
    IN  IF c1 = None THEN code_search(pg.raw) ELSE c1

\* the local get_text: the stripped text of an element, None for no element
detail_get_text(el) == IF el = None THEN None ELSE Some(get_text(The(el)))

\* the selectors of the description, in the order they are tried
DescSelectors == <<"island-desc-more", "island-desc", "island-desc-trimmed",
                   "island-desc-wrap">>
DotsMore == <<".", ".", ".", "m", "o", "r", "e">>
\* "...more" with its ellipsis character read in the wrong encoding: three
\* characters, written here a^, EUR and |, and then "more"
MojibakeMore == <<"a^", "EUR", "|", "m", "o", "r", "e">>

\* description: the longest non-empty text among the description elements (the
\* first such in selector order), without its "...more" artifacts, stripped
detail_description(pg) ==
    LET texts(sel) == LET els == SelectSeq(pg.desc, LAMBDA el : sel \in el.classes)
                      IN  [i \in 1..Len(els) |-> get_text(els[i].text)]
        desc_candidates ==
            SelectSeq(Flatten([k \in 1..Len(DescSelectors) |-> texts(DescSelectors[k])]),
                      LAMBDA t : t # <<>>)
    IN  IF desc_candidates = <<>> THEN None
        ELSE LET best == CHOOSE i \in 1..Len(desc_candidates) :
                           /\ \A j \in 1..Len(desc_candidates) :
                                Len(desc_candidates[j]) <= Len(desc_candidates[i])
                           /\ \A j \in 1..(i - 1) :
                                Len(desc_candidates[j]) < Len(desc_candidates[i])
             IN  Some(Strip(Remove(Remove(desc_candidates[best], DotsMore),
                                   MojibakeMore)))

\* tags: the non-empty texts of the tag elements
detail_tags(pg) ==
    SelectSeq([i \in 1..Len(pg.tags) |-> get_text(pg.tags[i])], LAMBDA t : t # <<>>)

\* stats_overview: title -> number ("" for no number) of the boxes with a title
RECURSIVE stats_of(_, _)
stats_of(boxes, acc) ==
    IF boxes = <<>> THEN acc
    ELSE LET title == detail_get_text(boxes[1].title)
             number == detail_get_text(boxes[1].number)
         IN  stats_of(Tail(boxes),
                      IF title # None /\ The(title) # <<>>
                      THEN DictSet(acc, The(title), IF number = None THEN <<>> ELSE The(number))
                      ELSE acc)
detail_stats(pg) == stats_of(pg.boxes, EmptyDict)

\* the record built from the fragment-mode page
primary_fields(pg) ==
    [code |-> detail_code(pg),
     name |-> detail_get_text(pg.h1),
     creator |-> detail_get_text(pg.creator),
     description |-> detail_description(pg),
     tags |-> detail_tags(pg),
     image |-> primary_image(pg),
     players_now_text |-> detail_get_text(pg.players_now),
     peak_24h_text |-> detail_get_text(pg.peak_24h),
     all_time_peak_text |-> detail_get_text(pg.alltime_peak),
     stats_overview |-> detail_stats(pg)]

IslandCode == <<"1", "2", "3", "4", "-", "5", "6", "7", "8", "-", "9", "0", "1", "2">>
\* a bare code; a query with and without its "?"; a path and query; full URLs
\* with and without a query
DetailInputs ==
    {IslandCode, CodeEq \o IslandCode, <<"?">> \o CodeEq \o IslandCode,
     IslandQ \o CodeEq \o IslandCode, BASE \o IslandQ \o CodeEq \o IslandCode,
     BASE \o <<"/", "i", "s", "l", "a", "n", "d", "/">> \o IslandCode}

OgRootSrc == <<"/", "o", ".", "p", "n", "g">>
OgAbsSrc == <<"h", "t", "t", "p", ":", "/", "/", "x", "/", "o", ".", "p", "n", "g">>
\* the rest of a detail page: one with every element, one with none
RichRest ==
    [h1 |-> Some(<<" ", "M", "a", "p", " ">>), code_wrap |-> Some(<<"C", "o", "d", "e", ":", " ">> \o IslandCode), raw |-> IslandCode,
     creator |-> Some(<<"a", "n", "n">>),
     desc |-> <<[classes |-> {"island-desc-wrap"}, text |-> <<"F", "u", "n", " ", ".", ".", ".", "m", "o", "r", "e", " ", "F", "u", "n", " ", "m", "a", "p">>],
                [classes |-> {"island-desc-trimmed"}, text |-> <<"F", "u", "n", " ", ".", ".", ".", "m", "o", "r", "e">>],
                [classes |-> {"island-desc-more"}, text |-> <<"F", "u", "n", " ", "m", "a", "p">>]>>,
     tags |-> <<<<"p", "v", "p">>, <<" ">>, <<"r", "a", "c", "e">>>>,
     players_now |-> Some(<<"1", ",", "2", "3", "4">>), peak_24h |-> Some(<<"2", ".", "5", "K">>), alltime_peak |-> None,
     boxes |-> <<[title |-> Some(<<"U", "p", "d", "a", "t", "e", "d">>), number |-> Some(<<"3", " ", "d", "a", "y", "s", " ", "a", "g", "o">>)],
                 [title |-> None, number |-> Some(<<"5">>)],
                 [title |-> Some(<<"P", "l", "a", "y", "s">>), number |-> None]>>]
BareRest ==
    [h1 |-> None, code_wrap |-> None, raw |-> <<"n", "o", " ", "c", "o", "d", "e", " ", "h", "e", "r", "e">>, creator |-> None,
     desc |-> <<>>, tags |-> <<>>, players_now |-> None, peak_24h |-> None,
     alltime_peak |-> None, boxes |-> <<>>]

ThumbSrc == <<"/", "t", ".", "p", "n", "g">>
BgStyle == <<"b", "a", "c", "k", "g", "r", "o", "u", "n", "d", "-", "i", "m", "a", "g",
             "e", ":", "u", "r", "l", "(", "'", "/", "b", ".", "p", "n", "g", "'", ")">>
TwSrc == <<"w", ".", "p", "n", "g">>
Thumbs == {None, Some([src |-> None]), Some([src |-> Some(<<>>)]),
           Some([src |-> Some(ThumbSrc)])}
\* a page with no code in its code display element and, in its body, a digit
\* string longer than a code
LongRaw == <<"i", "d", " ", "9", "1", "2", "3", "4", "-", "5", "6", "7", "8", "-", "9", "0", "1", "2", "-", "3", "4", "5", "6">>
LongRest == [BareRest EXCEPT !.code_wrap = Some(<<"n", "/", "a">>), !.raw = LongRaw]
DetailPages ==
    {[kind |-> "page", h1 |-> rest.h1, code_wrap |-> rest.code_wrap, raw |-> rest.raw,
      creator |-> rest.creator, desc |-> rest.desc, tags |-> rest.tags,
      players_now |-> rest.players_now, peak_24h |-> rest.peak_24h,
      alltime_peak |-> rest.alltime_peak, boxes |-> rest.boxes,
      thumb |-> th, bg |-> bg, og |-> og, tw |-> tw] :
        rest \in {RichRest, BareRest, LongRest},
        th \in Thumbs,
        bg \in {None, Some([style |-> Some(BgStyle)])},
        og \in {None, Some([content |-> None]), Some([content |-> Some(OgSrc)]),
                Some([content |-> Some(OgRootSrc)]), Some([content |-> Some(OgAbsSrc)])},
        tw \in {None, Some([content |-> Some(TwSrc)])}}
PrimaryResponses == {[kind |-> "conn_error"], [kind |-> "http_error"]} \cup DetailPages
SecondaryResponses ==
    {[kind |-> "conn_error"], [kind |-> "http_error"], [kind |-> "unparsable"]}
        \cup {[kind |-> "page", og |-> og, thumb |-> th] :
                og \in {None, Some([content |-> Some(OgSrc)])},
                th \in {None, Some([src |-> Some(ThumbSrc)])}}

DetailReq(url) == [ev |-> "req", path |-> "/island", url |-> url, params |-> EmptyDict]

Call_fetch_island_details ==
    /\ pc = "idle"
    /\ \E code_or_url \in DetailInputs :
         /\ call' = [op |-> "fetch_island_details", code_or_url |-> code_or_url,
                     url |-> detail_url(code_or_url)]
         /\ IF detail_url(code_or_url) = None
            THEN pc' = "raised" /\ log' = Append(log, Raised("IndexError"))
            ELSE pc' = "details_primary" /\ log' = log
    /\ UNCHANGED <<delay, page, seen, data, pending, items, result, served, html_in,
                   parsed>>
    /\ UNCHANGED botvars

\* the fragment-mode request and everything read from its page
DetailsPrimary ==
    /\ pc = "details_primary"
    /\ \E resp \in PrimaryResponses :
         LET req == DetailReq(ajax_url(The(call.url)))
         IN  /\ served' = Append(served, resp)
             /\ IF resp.kind \in {"conn_error", "http_error"}
                THEN /\ log' = log \o <<req, Raised(IF resp.kind = "http_error"
                                                     THEN "HTTPError"
                                                     ELSE "ConnectionError")>>
                     /\ pc' = "raised"
                     /\ UNCHANGED <<data, result>>
                ELSE LET det == primary_fields(resp)
                     IN  IF det.image = None
                         THEN /\ log' = log \o <<req>> \o _sleep
                              /\ data' = Some(det)
                              /\ pc' = "details_secondary"
                              /\ UNCHANGED result
                         ELSE /\ log' = log \o <<req>> \o _sleep \o <<Returned>>
                              /\ result' = Some(det)
                              /\ pc' = "done"
                              /\ UNCHANGED data
    /\ UNCHANGED <<delay, call, page, seen, pending, items, html_in, parsed>>
    /\ UNCHANGED botvars

\* a variant in which a failure of the non-fragment request is raised
DetailsSecondary_raises ==
    /\ pc = "details_secondary"
    /\ \E resp \in SecondaryResponses :
         /\ served' = Append(served, resp)
         /\ IF resp.kind = "page"
            THEN /\ log' = log \o <<DetailReq(non_ajax_url(The(call.url))), Returned>>
                 /\ result' = Some([The(data) EXCEPT !.image = secondary_image(resp)])
                 /\ pc' = "done"
            ELSE /\ log' = log \o <<DetailReq(non_ajax_url(The(call.url))),
                                    Raised("HTTPError")>>
                 /\ pc' = "raised"
                 /\ UNCHANGED result
    /\ UNCHANGED <<delay, call, page, seen, data, pending, items, html_in, parsed>>
    /\ UNCHANGED botvars

\* the last resort: the non-fragment request, best effort, and the return
DetailsSecondary ==
    /\ pc = "details_secondary"
    /\ \E resp \in SecondaryResponses :
         /\ served' = Append(served, resp)
         /\ log' = log \o <<DetailReq(non_ajax_url(The(call.url))), Returned>>
         /\ result' = Some([The(data) EXCEPT
                               !.image = IF resp.kind = "page" THEN secondary_image(resp)
                                         ELSE None])
    /\ pc' = "done"
    /\ UNCHANGED <<delay, call, page, seen, data, pending, items, html_in, parsed>>
    /\ UNCHANGED botvars

Next ==
    \/ Call_iter_creative_list
    \/ IterFetch
    \/ IterYield
    \/ IterAdvance
    \/ Call_fetch_creator_stats
    \/ CreatorFetch
    \/ CreatorAvatar
    \/ Call_fetch_island_details
    \/ DetailsPrimary
    \/ DetailsSecondary

Spec == Init /\ [][Next]_vars

-----------------------------------------------------------------------------
(* The markup extractor alone *)

\* a card whose rank label is not a number and whose link has no code
CardD == [NoCard EXCEPT !.tag = "a", !.classes = {"island"},
            !.href = Some(<<"/", "i", "s", "l", "a", "n", "d", "?", "c", "o", "d", "e",
                            "=", "X">>),
            !.rank = Some(<<"#", "7">>), !.title = Some(<<" ", "D", " ">>),
            !.ccu = Some(<<"n", "/", "a">>),
            !.stats = <<[span |-> Some(<<"2", "4", "H", " ", "p", "l", "a", "y", "s">>),
                         text |-> <<"2", "4", "H", " ", "p", "l", "a", "y", "s", " ", "9",
                                    "K">>]>>]
\* a card whose rank label is a superscript digit (isdigit() holds, int() raises)
\* and that has no link target at all
CardE == [NoCard EXCEPT !.tag = "a", !.classes = {"island"},
            !.rank = Some(<<"^2">>), !.title = Some(<<"E">>), !.ccu = Some(<<"8">>)]
Elements == {CardA, CardB, CardC, CardD, CardE, NoCard, PlainLink}

RECURSIVE SeqsUpTo(_, _)
SeqsUpTo(S, n) ==
    IF n = 0 THEN {<<>>}
    ELSE LET shorter == SeqsUpTo(S, n - 1)
         IN  shorter \cup {Append(q, x) : q \in shorter, x \in S}

InitParse ==
    /\ delay \in Delays
    /\ pc = "idle"
    /\ call = [op |-> "none"]
    /\ page = 0
    /\ seen = 0
    /\ data = None
    /\ pending = <<>>
    /\ items = <<>>
    /\ result = None
    /\ log = <<>>
    /\ served = <<>>
    /\ html_in \in SeqsUpTo(Elements, MaxElems)
    /\ parsed = None
    /\ BotLoaded

Call_parse_islands_html ==
    /\ parsed = None
    /\ parsed' = Some(parse_islands_html(html_in))
    /\ UNCHANGED <<delay, pc, call, page, seen, data, pending, items, result, log,
                   served, html_in>>
    /\ UNCHANGED botvars

NextParse == Call_parse_islands_html

SpecParse == InitParse /\ [][NextParse]_vars

-----------------------------------------------------------------------------
(* The bot's text normalizers: numbers *)

RECURSIVE Pow10(_)
Pow10(k) == IF k = 0 THEN 1 ELSE 10 * Pow10(k - 1)

\* str.upper(), on the ASCII letters
UpperChar(c) ==
    IF c \in LowerChars THEN UpperSeq[CHOOSE i \in 1..26 : LowerSeq[i] = c] ELSE c

\* the last position of the run of digits that starts at i (i - 1 when s[i] is
\* no digit)
RECURSIVE DigitRunEnd(_, _)
DigitRunEnd(s, i) ==
    IF i <= Len(s) /\ s[i] \in DigitChars THEN DigitRunEnd(s, i + 1) ELSE i - 1

\* the first position at or after i that holds no whitespace (\s*)
RECURSIVE SkipSpaces(_, _)
SkipSpaces(s, i) ==
    IF i <= Len(s) /\ s[i] \in SpaceChars THEN SkipSpaces(s, i + 1) ELSE i

\* a variant that reads the first run of digits only and keeps the commas
_toint_firstrun(text) ==
    IF text = None \/ The(text) = <<>> THEN None
    ELSE LET t == The(text)
             starts == {i \in 1..Len(t) : t[i] \in DigitChars}
         IN  IF starts = {} THEN None
             ELSE LET i == CHOOSE i \in starts : \A j \in starts : i <= j
                  IN  Some(StrToInt(SubSeq(t, i, DigitRunEnd(t, i))))

\* a variant that gives 0 where there is no digit
_toint_zero(txt) ==
    IF txt = None \/ The(txt) = <<>> THEN None
    ELSE Some(StrToInt(SelectSeq(The(txt), LAMBDA c : c \in DigitChars)))

\* _toint: None for None or "", else the runs of digits of the text without its
\* commas, joined and read as one integer; None when there is no digit
_toint(txt) ==
    IF txt = None \/ The(txt) = <<>> THEN None
    ELSE LET nocomma == SelectSeq(The(txt), LAMBDA c : c # ",")
             ds == SelectSeq(nocomma, LAMBDA c : c \in DigitChars)
         IN  IF ds = <<>> THEN None ELSE Some(StrToInt(ds))

\* the number of zeros of the multiplier of a suffix: K, M, B or none
SuffixZeros(suf) ==
    IF suf = <<"K">> THEN 3 ELSE IF suf = <<"M">> THEN 6 ELSE IF suf = <<"B">> THEN 9 ELSE 0

\* _toint_abbrev: the text stripped and without commas is matched against
\* ^([0-9]+(?:\.[0-9]+)?)\s*([KMB]?)$ ignoring case; on a match the mantissa
\* times the multiplier is cut to an integer by int(), otherwise _toint reads
\* the text.  The product is computed here as the decimal it stands for; the
\* float product of the source has the same integer part for the mantissas
\* drawn below (it has not for one such as 1.0006 with M, which gives 1000599).
_toint_abbrev(txt) ==
    IF txt = None \/ The(txt) = <<>> THEN None
    ELSE LET s == SelectSeq(Strip(The(txt)), LAMBDA c : c # ",")
             i == DigitRunEnd(s, 1)
             hasfrac == i + 2 <= Len(s) /\ s[i + 1] = "." /\ s[i + 2] \in DigitChars
             j == IF hasfrac THEN DigitRunEnd(s, i + 2) ELSE i
             k == SkipSpaces(s, j + 1)
             suf == IF k <= Len(s) /\ UpperChar(s[k]) \in {"K", "M", "B"}
                    THEN <<UpperChar(s[k])>> ELSE <<>>
             m == i >= 1 /\ k + Len(suf) = Len(s) + 1
         IN  IF ~m THEN _toint(txt)
             ELSE LET digits == SubSeq(s, 1, i) \o
                                (IF hasfrac THEN SubSeq(s, i + 2, j) ELSE <<>>)
                      f == IF hasfrac THEN j - i - 1 ELSE 0
                      z == SuffixZeros(suf)
                  IN  Some(IF f <= z THEN StrToInt(digits) * Pow10(z - f)
                           ELSE StrToInt(digits) \div Pow10(f - z))

-----------------------------------------------------------------------------
(* The bot's text normalizers: dates *)

\* s has the word w at position i
HasAt(s, i, w) == i >= 1 /\ i + Len(w) - 1 <= Len(s) /\ SubSeq(s, i, i + Len(w) - 1) = w

\* the positions where a run of digits starts
RunStarts(s) ==
    {i \in 1..Len(s) : s[i] \in DigitChars /\ (i = 1 \/ s[i - 1] \notin DigitChars)}

\* the units of the relative pattern, in the order of its alternation
UnitNames == <<<<"s", "e", "c", "o", "n", "d">>, <<"m", "i", "n", "u", "t", "e">>, <<"h", "o", "u", "r">>, <<"d", "a", "y">>, <<"w", "e", "e", "k">>, <<"m", "o", "n", "t", "h">>, <<"y", "e", "a", "r">>>>

\* a variant that takes a month for 31 days
unit_mult_month31(unit) ==
    IF unit = <<"s", "e", "c", "o", "n", "d">> THEN 1
    ELSE IF unit = <<"m", "i", "n", "u", "t", "e">> THEN 60
    ELSE IF unit = <<"h", "o", "u", "r">> THEN 3600
    ELSE IF unit = <<"d", "a", "y">> THEN 86400
    ELSE IF unit = <<"w", "e", "e", "k">> THEN 604800
    ELSE IF unit = <<"m", "o", "n", "t", "h">> THEN 2678400
    ELSE IF unit = <<"y", "e", "a", "r">> THEN 31536000
    ELSE 0

\* the dict `mult`, with .get(unit, 0)
unit_mult(unit) ==
    IF unit = <<"s", "e", "c", "o", "n", "d">> THEN 1
    ELSE IF unit = <<"m", "i", "n", "u", "t", "e">> THEN 60
    ELSE IF unit = <<"h", "o", "u", "r">> THEN 3600
    ELSE IF unit = <<"d", "a", "y">> THEN 86400
    ELSE IF unit = <<"w", "e", "e", "k">> THEN 604800
    ELSE IF unit = <<"m", "o", "n", "t", "h">> THEN 2592000
    ELSE IF unit = <<"y", "e", "a", "r">> THEN 31536000
    ELSE 0

\* \s*ago at position p
AgoAt(s, p) == HasAt(s, SkipSpaces(s, p), <<"a", "g", "o">>)

\* the units u for which (\d+)\s*(u)s?\s*ago matches at the run of digits that
\* starts at i
UnitsAt(low, i) ==
    LET k == SkipSpaces(low, DigitRunEnd(low, i) + 1)
    IN  {u \in 1..Len(UnitNames) :
           /\ HasAt(low, k, UnitNames[u])
           /\ LET p == k + Len(UnitNames[u])
              IN  \/ p <= Len(low) /\ low[p] = "s" /\ AgoAt(low, p + 1)
                  \/ AgoAt(low, p)}

\* re.search(r"(\d+)\s*(second|...|year)s?\s*ago", low): the leftmost match, as
\* the pair of its two groups, or None
relative_search(low) ==
    LET starts == {i \in RunStarts(low) : UnitsAt(low, i) # {}}
    IN  IF starts = {} THEN None
        ELSE LET i == CHOOSE i \in starts : \A j \in starts : i <= j
             IN  Some([n |-> StrToInt(SubSeq(low, i, DigitRunEnd(low, i))),
                       unit |-> UnitNames[CHOOSE u \in UnitsAt(low, i) : TRUE]])

\* re.search(r"(\d+)\s*day", low): the number of the leftmost match, or None
day_search(low) ==
    LET starts == {i \in RunStarts(low) :
                     HasAt(low, SkipSpaces(low, DigitRunEnd(low, i) + 1), <<"d", "a", "y">>)}
    IN  IF starts = {} THEN None
        ELSE LET i == CHOOSE i \in starts : \A j \in starts : i <= j
             IN  Some(StrToInt(SubSeq(low, i, DigitRunEnd(low, i))))

\* the formats tried, each as its directives, literal characters and blanks (a
\* blank of a format stands for \s+)
DateFormats ==
    <<<<"%Y", "-", "%m", "-", "%d">>,
      <<"%d", ".", "%m", ".", "%Y">>,
      <<"%b", " ", "%d", ",", " ", "%Y">>,
      <<"%d", " ", "%b", " ", "%Y">>,
      <<"%B", " ", "%d", ",", " ", "%Y">>>>

MonthAbbr == <<<<"j", "a", "n">>, <<"f", "e", "b">>, <<"m", "a", "r">>, <<"a", "p", "r">>, <<"m", "a", "y">>, <<"j", "u", "n">>, <<"j", "u", "l">>, <<"a", "u", "g">>, <<"s", "e", "p">>, <<"o", "c", "t">>,
               <<"n", "o", "v">>, <<"d", "e", "c">>>>
MonthFull == <<<<"j", "a", "n", "u", "a", "r", "y">>, <<"f", "e", "b", "r", "u", "a", "r", "y">>, <<"m", "a", "r", "c", "h">>, <<"a", "p", "r", "i", "l">>, <<"m", "a", "y">>, <<"j", "u", "n", "e">>, <<"j", "u", "l", "y">>,
               <<"a", "u", "g", "u", "s", "t">>, <<"s", "e", "p", "t", "e", "m", "b", "e", "r">>, <<"o", "c", "t", "o", "b", "e", "r">>, <<"n", "o", "v", "e", "m", "b", "e", "r">>, <<"d", "e", "c", "e", "m", "b", "e", "r">>>>

AllDigits(t, p, n) == p + n - 1 <= Len(t) /\ \A i \in p..(p + n - 1) : t[i] \in DigitChars

\* what a month name directive can take at position p, names compared ignoring case
NameCandidates(t, p, names) ==
    LET hit == {k \in 1..12 : HasAt(Lower(t), p, names[k])}
    IN  IF hit = {} THEN <<>>
        ELSE LET k == CHOOSE k \in hit : TRUE IN <<[len |-> Len(names[k]), val |-> k]>>

\* what one token of a format can take at position p, in the order the
\* alternatives of its regular expression are tried
Candidates(t, p, tok) ==
    IF tok = "%Y"
    THEN IF AllDigits(t, p, 4) THEN <<[len |-> 4, val |-> StrToInt(SubSeq(t, p, p + 3))]>>
         ELSE <<>>
    ELSE IF tok \in {"%m", "%d"}
    THEN LET top == IF tok = "%m" THEN 12 ELSE 31
             two == IF AllDigits(t, p, 2) THEN StrToInt(SubSeq(t, p, p + 1)) ELSE 0
         IN  (IF two \in 1..top THEN <<[len |-> 2, val |-> two]>> ELSE <<>>)
             \o (IF AllDigits(t, p, 1) /\ t[p] # "0"
                 THEN <<[len |-> 1, val |-> DigitVal(t[p])]>> ELSE <<>>)
             \o (IF tok = "%d" /\ p + 1 <= Len(t) /\ t[p] = " " /\ AllDigits(t, p + 1, 1)
                    /\ t[p + 1] # "0"
                 THEN <<[len |-> 2, val |-> DigitVal(t[p + 1])]>> ELSE <<>>)
    ELSE IF tok = "%b" THEN NameCandidates(t, p, MonthAbbr)
    ELSE IF tok = "%B" THEN NameCandidates(t, p, MonthFull)
    ELSE IF tok = " "
    THEN LET run == SkipSpaces(t, p) - p
         IN  [c \in 1..run |-> [len |-> run + 1 - c, val |-> 0]]
    ELSE IF p <= Len(t) /\ t[p] = tok THEN <<[len |-> 1, val |-> 0]>> ELSE <<>>

Put(acc, tok, val) ==
    IF tok = "%Y" THEN [acc EXCEPT !.year = val]
    ELSE IF tok \in {"%m", "%b", "%B"} THEN [acc EXCEPT !.month = val]
    ELSE IF tok = "%d" THEN [acc EXCEPT !.day = val]
    ELSE acc

\* format_regex.match(data_string): the first way, in backtracking order, to
\* match the tokens of fmt from position p on; None when there is none
RECURSIVE StrpMatch(_, _, _, _)
StrpMatch(t, p, fmt, acc) ==
    IF fmt = <<>> THEN Some([date |-> acc, end |-> p])
    ELSE LET cands == Candidates(t, p, fmt[1])
             RECURSIVE Try(_)
             Try(c) ==
                 IF c > Len(cands) THEN None
                 ELSE LET r == StrpMatch(t, p + cands[c].len, Tail(fmt),
                                         Put(acc, fmt[1], cands[c].val))
                      IN  IF r # None THEN r ELSE Try(c + 1)
         IN  Try(1)

IsLeap(y) == y % 4 = 0 /\ (y % 100 # 0 \/ y % 400 = 0)
DaysInMonth(y, m) ==
    IF m = 2 THEN (IF IsLeap(y) THEN 29 ELSE 28)
    ELSE IF m \in {4, 6, 9, 11} THEN 30 ELSE 31

\* a variant that lets every month have 31 days
valid_date_lax(d) == d.year >= 1 /\ d.day <= 31

\* the dates datetime() accepts
valid_date(d) == d.year >= 1 /\ d.day <= DaysInMonth(d.year, d.month)

\* _dt.strptime(t, fmt): the date, or None where it raises ValueError (no match,
\* unconverted data, or a day the month does not have)
strptime(t, fmt) ==
    LET found == StrpMatch(t, 1, fmt, [year |-> 0, month |-> 0, day |-> 0])
    IN  IF found = None \/ The(found).end # Len(t) + 1 THEN None
        ELSE IF ~valid_date(The(found).date) THEN None
        ELSE Some(The(found).date)

LeapsBefore(y) == ((y - 1) \div 4) - ((y - 1) \div 100) + ((y - 1) \div 400)
DaysBeforeMonth == <<0, 31, 59, 90, 120, 151, 181, 212, 243, 273, 304, 334>>

\* int(d.timestamp()) of the naive midnight d, in a zone utcoffset seconds east
timestamp(d, utcoffset) ==
    LET days == 365 * (d.year - 1970) + LeapsBefore(d.year) - LeapsBefore(1970)
                + DaysBeforeMonth[d.month]
                + (IF d.month > 2 /\ IsLeap(d.year) THEN 1 ELSE 0) + d.day - 1
    IN  days * 86400 - utcoffset

\* _parse_updated_text_to_ts, at the clock reading `now`
_parse_updated_text_to_ts(text, now, utcoffset) ==
    IF text = None \/ The(text) = <<>> THEN None
    ELSE LET t == Strip(The(text))
             low == Lower(t)
             m == relative_search(low)
         IN  IF m # None /\ unit_mult(The(m).unit) # 0
             THEN Some(now - The(m).n * unit_mult(The(m).unit))
             ELSE LET dates == [k \in 1..Len(DateFormats) |-> strptime(t, DateFormats[k])]
                      hits == {k \in 1..Len(DateFormats) : dates[k] # None}
                  IN  IF hits # {}
                      THEN Some(timestamp(The(dates[CHOOSE k \in hits :
                                                      \A h \in hits : k <= h]),
                                          utcoffset))
                      ELSE LET m2 == day_search(low)
                           IN  IF m2 # None THEN Some(now - The(m2) * 86400) ELSE None

-----------------------------------------------------------------------------
(* The text normalizers alone: inputs and calls *)

\* the largest number of ",ddd" groups of a grouped integer text
MaxGroups == 2
\* the largest N of a relative phrase "<N> <unit> ago"
MaxN == 11

Pad3(g) == IF g < 10 THEN <<"0", "0">> \o IntToStr(g)
           ELSE IF g < 100 THEN <<"0">> \o IntToStr(g) ELSE IntToStr(g)

\* grouped integers <int>(,<3 digits>)*, of at most 9 digits
GroupedInputs ==
    {g \in [head : {0, 1, 12, 345, 2147},
            groups : SeqsUpTo({0, 45, 345, 999}, MaxGroups)] :
        Len(IntToStr(g.head)) + 3 * Len(g.groups) <= 9}
GroupedText(g) ==
    IntToStr(g.head) \o Flatten([i \in 1..Len(g.groups) |-> <<",">> \o Pad3(g.groups[i])])
RECURSIVE GroupedValue(_)
GroupedValue(g) ==
    IF g.groups = <<>> THEN g.head
    ELSE GroupedValue([head |-> g.head * 1000 + g.groups[1], groups |-> Tail(g.groups)])

\* abbreviated numbers <int>[.<frac>][ ][KMB] whose value is below 2^31
AbbrevZeros(a) == SuffixZeros([i \in 1..Len(a.suf) |-> UpperChar(a.suf[i])])
AbbrevInputs ==
    {a \in [int : {<<"0">>, <<"1">>, <<"4", "6", "2">>, <<"9", "8", "7">>},
            frac : {<<>>, <<"2">>, <<"3">>, <<"5">>, <<"9">>, <<"9", "9", "9", "9">>, <<"2", "3", "4", "6">>},
            sp : {<<>>, <<" ">>},
            suf : {<<>>, <<"K">>, <<"k">>, <<"M">>, <<"m">>, <<"B">>, <<"b">>}] :
        Len(a.int) + AbbrevZeros(a) <= 9 \/ a.int \in {<<"0">>, <<"1">>}}
AbbrevText(a) ==
    a.int \o (IF a.frac = <<>> THEN <<>> ELSE <<".">> \o a.frac) \o a.sp \o a.suf

\* relative phrases "<N> <unit>[s] ago"
RelInputs == [n : 0..MaxN, unit : 1..Len(UnitNames), plural : BOOLEAN]
RelText(r) ==
    IntToStr(r.n) \o <<" ">> \o UnitNames[r.unit] \o (IF r.plural THEN <<"s">> ELSE <<>>)
        \o <<" ", "a", "g", "o">>

\* dates in the five formats
AbsDateTexts ==
    {<<"2", "0", "2", "4", "-", "0", "1", "-", "1", "5">>, <<"2", "0", "2", "4", "-", "1", "-", "5">>, <<"1", "5", ".", "0", "1", ".", "2", "0", "2", "4">>, <<"J", "a", "n", " ", "1", "5", ",", " ", "2", "0", "2", "4">>, <<"1", "5", " ", "J", "a", "n", " ", "2", "0", "2", "4">>,
     <<"J", "a", "n", "u", "a", "r", "y", " ", "1", "5", ",", " ", "2", "0", "2", "4">>, <<"2", "0", "2", "4", "-", "0", "2", "-", "2", "9">>, <<"5", " ", "m", "a", "y", " ", "2", "0", "2", "3">>, <<"D", "e", "c", "e", "m", "b", "e", "r", " ", "3", "1", ",", " ", "2", "0", "2", "3">>}
\* texts with a number followed by "day" and no "ago"
DayTexts == {<<"3", " ", "d", "a", "y", "s">>, <<"1", " ", "d", "a", "y">>, <<"7", "d", "a", "y">>, <<"1", "0", " ", "d", "a", "y", "s", " ", "l", "e", "f", "t">>}
\* texts with a number that are no relative phrase, no date and hold no "<N> day"
MissTexts ==
    {<<"3", " ", "w", "e", "e", "k", "s">>, <<"5", " ", "h", "o", "u", "r", "s">>, <<"a", "g", "o", " ", "3">>, <<"2", "0", "2", "4", "/", "0", "1", "/", "1", "5">>, <<"1", "5", "-", "0", "1", "-", "2", "0", "2", "4">>, <<"J", "a", "n", " ", "2", "0", "2", "4">>,
     <<"3", "2", ".", "0", "1", ".", "2", "0", "2", "4">>, <<"2", "0", "2", "3", "-", "0", "2", "-", "2", "9">>, <<"2", "0", "2", "4", "-", "1", "3", "-", "0", "1">>, <<"1", "5", ".", "0", "1", ".", "2", "4">>, <<"J", "a", "n", " ", "1", "5", " ", "2", "0", "2", "4">>,
     <<"3", "1", " ", "A", "p", "r", " ", "2", "0", "2", "4">>, <<"2", "0", "2", "4", "-", "0", "1", "-", "1", "5", "5">>}
\* texts with no digit
NoNumberTexts == {<<>>, <<" ">>, <<" ", " ", " ">>, <<"n", "/", "a">>, <<"-">>, <<"K">>, <<"s", "o", "o", "n">>, <<"d", "a", "y", "s", " ", "a", "g", "o">>, <<"y", "e", "s", "t", "e", "r", "d", "a", "y">>}
\* other texts the site shows
OtherTexts ==
    {<<"U", "p", "d", "a", "t", "e", "d", " ", "3", " ", "d", "a", "y", "s", " ", "a", "g", "o">>, <<"3", " ", "D", "A", "Y", "S", " ", "A", "G", "O">>, <<"2", "w", "e", "e", "k", "s", "a", "g", "o">>, <<"1", "2", " ", "p", "l", "a", "y", "e", "r", "s">>, <<"1", ".", "5", ".", "2", "K">>, <<"1", ".", "K">>,
     <<" ", "4", "2", " ">>, <<"1", ",", "5", "K">>}

Texts ==
    {None} \cup
    {Some(x) : x \in {GroupedText(g) : g \in GroupedInputs}
                     \cup {AbbrevText(a) : a \in AbbrevInputs}
                     \cup {RelText(r) : r \in RelInputs}
                     \cup AbsDateTexts \cup DayTexts \cup MissTexts \cup NoNumberTexts
                     \cup OtherTexts}

\* clock readings (seconds since the epoch) and the zone of the process
Nows == {1700000000, 1762232400}
UtcOffsets == {0, 10800}

InitText ==
    /\ delay = 0
    /\ pc = "idle"
    /\ call = [op |-> "none"]
    /\ page = 0
    /\ seen = 0
    /\ data = None
    /\ pending = <<>>
    /\ items = <<>>
    /\ result = None
    /\ log = <<>>
    /\ served = <<>>
    /\ html_in = <<>>
    /\ parsed = None
    /\ BotLoaded

Call__parse_int ==
    /\ pc = "idle"
    /\ \E text \in Texts :
         /\ call' = [op |-> "_parse_int", text |-> text]
         /\ result' = Some(_parse_int(text))
    /\ pc' = "done"
    /\ UNCHANGED <<delay, page, seen, data, pending, items, log, served, html_in, parsed>>
    /\ UNCHANGED botvars

Call__toint ==
    /\ pc = "idle"
    /\ \E txt \in Texts :
         /\ call' = [op |-> "_toint", text |-> txt]
         /\ result' = Some(_toint(txt))
    /\ pc' = "done"
    /\ UNCHANGED <<delay, page, seen, data, pending, items, log, served, html_in, parsed>>
    /\ UNCHANGED botvars

Call__toint_abbrev ==
    /\ pc = "idle"
    /\ \E txt \in Texts :
         /\ call' = [op |-> "_toint_abbrev", text |-> txt]
         /\ result' = Some(_toint_abbrev(txt))
    /\ pc' = "done"
    /\ UNCHANGED <<delay, page, seen, data, pending, items, log, served, html_in, parsed>>
    /\ UNCHANGED botvars

Call__parse_updated_text_to_ts ==
    /\ pc = "idle"
    /\ \E text \in Texts, now \in Nows, utcoffset \in UtcOffsets :
         /\ call' = [op |-> "_parse_updated_text_to_ts", text |-> text, now |-> now,
                     utcoffset |-> utcoffset]
         /\ result' = Some(_parse_updated_text_to_ts(text, now, utcoffset))
    /\ pc' = "done"
    /\ UNCHANGED <<delay, page, seen, data, pending, items, log, served, html_in, parsed>>
    /\ UNCHANGED botvars

NextText ==
    \/ Call__parse_int
    \/ Call__toint
    \/ Call__toint_abbrev
    \/ Call__parse_updated_text_to_ts

SpecText == InitText /\ [][NextText]_vars

-----------------------------------------------------------------------------
(* The bot's storage: subscriptions and reminders (src/bot.py) *)

\* seconds in a day, the factor of interval_days
Day == 86400

\* str(chat_id), the key of a chat in SUBS and STATE
ChatKey(chat_id) == IntToStr(chat_id)

\* the position of the first record of a list whose field has the value,
\* 0 for none
Find(list, field, value) ==
    LET hits == {i \in 1..Len(list) : list[i][field] = value}
    IN  IF hits = {} THEN 0 ELSE CHOOSE i \in hits : \A j \in hits : i <= j

\* subs_bucket: SUBS with the chat's bucket made if it was not there; a bucket
\* with no "reminders" key is read as one with no reminders by every reader
subs_bucket(subs, chat_id) ==
    IF ChatKey(chat_id) \in DOMAIN subs THEN subs
    ELSE DictSet(subs, ChatKey(chat_id),
                 [maps |-> <<>>, creators |-> <<>>, reminders |-> <<>>])

\* a variant that always appends a new reminder record
set_map_update_reminder_append(subs, chat_id, code, days, t) ==
    LET s1 == subs_bucket(subs, chat_id)
        k == ChatKey(chat_id)
    IN  [s1 EXCEPT ![k].reminders =
            Append(@, [code |-> code,
                       interval_days |-> IF days > 1 THEN days ELSE 1,
                       last_update_ts |-> t, last_notified_ts |-> None,
                       active |-> TRUE])]

\* set_map_update_reminder at time t: SUBS afterwards
set_map_update_reminder(subs, chat_id, code, days, t) ==
    LET s1 == subs_bucket(subs, chat_id)
        k == ChatKey(chat_id)
        b == s1[k].reminders
        i == Find(b, "code", code)
        iv == IF days > 1 THEN days ELSE 1
    IN  IF i # 0
        THEN [s1 EXCEPT ![k].reminders[i].interval_days = iv,
                        ![k].reminders[i].active = TRUE,
                        ![k].reminders[i].last_update_ts = IF @ = 0 THEN t ELSE @]
        ELSE [s1 EXCEPT ![k].reminders =
                 Append(b, [code |-> code, interval_days |-> iv,
                            last_update_ts |-> t, last_notified_ts |-> None,
                            active |-> TRUE])]

\* a variant that keeps last_notified_ts of a record it finds
mark_map_updated_now_keepnotified(subs, chat_id, code, t) ==
    LET s1 == subs_bucket(subs, chat_id)
        k == ChatKey(chat_id)
        i == Find(s1[k].reminders, "code", code)
    IN  IF i # 0
        THEN [s1 EXCEPT ![k].reminders[i].last_update_ts = t,
                        ![k].reminders[i].active = TRUE]
        ELSE set_map_update_reminder(subs, chat_id, code, 4, t)

\* mark_map_updated_now at time t: SUBS afterwards
mark_map_updated_now(subs, chat_id, code, t) ==
    LET s1 == subs_bucket(subs, chat_id)
        k == ChatKey(chat_id)
        i == Find(s1[k].reminders, "code", code)
    IN  IF i # 0
        THEN [s1 EXCEPT ![k].reminders[i].last_update_ts = t,
                        ![k].reminders[i].last_notified_ts = None,
                        ![k].reminders[i].active = TRUE]
        ELSE set_map_update_reminder(subs, chat_id, code, 4, t)

\* the record of the code in the chat's reminders (there is one after either
\* of the two operations above)
reminder_of(subs, chat_id, code) ==
    LET b == subs[ChatKey(chat_id)].reminders
    IN  b[Find(b, "code", code)]

\* next_ts of check_reminders_job at time t
next_ts(r, t) ==
    (IF r.last_update_ts # 0 THEN r.last_update_ts ELSE t)
      + (IF r.interval_days # 0 THEN r.interval_days ELSE 4) * Day

\* a variant that notifies again whenever a full interval has passed since the
\* last notification
reminder_due_periodic(r, t) ==
    /\ r.active
    /\ t >= next_ts(r, t)
    /\ \/ r.last_notified_ts = None
       \/ The(r.last_notified_ts) = 0
       \/ The(r.last_notified_ts) < next_ts(r, t)
       \/ t >= The(r.last_notified_ts) + r.interval_days * Day

\* the test check_reminders_job makes of one record at time t
reminder_due(r, t) ==
    /\ r.active
    /\ t >= next_ts(r, t)
    /\ \/ r.last_notified_ts = None
       \/ The(r.last_notified_ts) = 0
       \/ The(r.last_notified_ts) < next_ts(r, t)

\* the reminders check_reminders_job finds due at time t: <<chat key, position>>
DuePairs(subs, t) ==
    {p \in UNION {{<<k, i>> : i \in 1..Len(subs[k].reminders)} : k \in DOMAIN subs} :
        reminder_due(subs[p[1]].reminders[p[2]], t)}

\* a notification of check_reminders_job: the chat, the record as it was found,
\* the time, and whether send_message went through
Notified(chat_id, r, t, ok) ==
    [ev |-> "send_message", chat_id |-> chat_id, code |-> r.code, at |-> t,
     ok |-> ok, rec |-> r]

Chats == {1, 2}
CodeB == <<"2", "2", "2", "2", "-", "3", "3", "3", "3", "-", "4", "4", "4", "4">>

\* the chat keys of SUBS in the order the job visits them
RECURSIVE KeysFrom(_)
KeysFrom(keys) ==
    IF keys = {} THEN <<>>
    ELSE LET k == CHOOSE x \in keys : \A y \in keys : StrToInt(x) <= StrToInt(y)
         IN  <<k>> \o KeysFrom(keys \ {k})
KeySeq(subs) == KeysFrom(DOMAIN subs)

\* the notifications of one run of the job, in order; failing holds the due
\* pairs whose send_message raises
JobSends(subs, t, failing) ==
    Flatten([n \in 1..Len(KeySeq(subs)) |->
               LET k == KeySeq(subs)[n]
                   rems == subs[k].reminders
                   due == SelectSeq([i \in 1..Len(rems) |-> i],
                                    LAMBDA i : <<k, i>> \in DuePairs(subs, t))
               IN  [j \in 1..Len(due) |->
                      Notified(StrToInt(k), rems[due[j]], t, <<k, due[j]>> \notin failing)]])

\* SUBS after the run: last_notified_ts of the pairs in consumed is the time
JobStore(subs, t, consumed) ==
    [k \in DOMAIN subs |->
        [subs[k] EXCEPT !.reminders =
            [i \in 1..Len(subs[k].reminders) |->
                IF <<k, i>> \in consumed
                THEN [subs[k].reminders[i] EXCEPT !.last_notified_ts = Some(t)]
                ELSE subs[k].reminders[i]]]]

\* the variables no operation of the bot touches
scraperlocals == <<delay, pc, page, seen, data, pending, items, served, html_in, parsed>>

\* bot.py loaded, nothing called yet
InitBot ==
    /\ delay = 0
    /\ pc = "idle"
    /\ call = [op |-> "none"]
    /\ page = 0
    /\ seen = 0
    /\ data = None
    /\ pending = <<>>
    /\ items = <<>>
    /\ result = None
    /\ log = <<>>
    /\ served = <<>>
    /\ html_in = <<>>
    /\ parsed = None
    /\ BotLoaded

-----------------------------------------------------------------------------
(* Map-update reminders *)

MaxDays == 4
MaxSends == 2
RemindChats == {1}
RemindCodes == {IslandCode}
RemindDays == {1}
Steps == {Day}
\* the island's last update as its detail page tells it, four days before the
\* bot was loaded; _extract_updated_ts_from_details gives it, or nothing
LastUpdate == Epoch - 4 * Day
UpdatedTs == {None, Some(LastUpdate)}

Call_set_map_update_reminder ==
    /\ \E chat_id \in RemindChats, code \in RemindCodes, days \in RemindDays :
         /\ SUBS' = set_map_update_reminder(SUBS, chat_id, code, days, clock)
         /\ call' = [op |-> "set_map_update_reminder", chat_id |-> chat_id,
                     code |-> code]
    /\ UNCHANGED <<scraperlocals, result, log, ChatState, _COUNTS_CACHE, clock>>

Call_mark_map_updated_now ==
    /\ \E chat_id \in RemindChats, code \in RemindCodes :
         /\ SUBS' = mark_map_updated_now(SUBS, chat_id, code, clock)
         /\ call' = [op |-> "mark_map_updated_now", chat_id |-> chat_id,
                     code |-> code]
    /\ UNCHANGED <<scraperlocals, result, log, ChatState, _COUNTS_CACHE, clock>>

\* the "updremind" callback of the map card's button: the reminder is set and,
\* if the detail page gives a time of the last update, the clock of the
\* reminder is put back to it
Callback_updremind ==
    /\ \E chat_id \in RemindChats, code \in RemindCodes, ts \in UpdatedTs :
         LET s1 == set_map_update_reminder(SUBS, chat_id, code, 4, clock)
             k == ChatKey(chat_id)
             i == Find(s1[k].reminders, "code", code)
         IN  /\ SUBS' = IF ts # None /\ The(ts) # 0
                        THEN [s1 EXCEPT ![k].reminders[i].last_update_ts = The(ts),
                                        ![k].reminders[i].last_notified_ts = None]
                        ELSE s1
             /\ call' = [op |-> "updremind", chat_id |-> chat_id, code |-> code]
    /\ UNCHANGED <<scraperlocals, result, log, ChatState, _COUNTS_CACHE, clock>>

\* a variant that leaves a reminder due when its send_message raised
check_reminders_job_retry ==
    /\ Len(log) + Cardinality(DuePairs(SUBS, clock)) <= MaxSends
    /\ \E failing \in SUBSET DuePairs(SUBS, clock) :
         /\ log' = log \o JobSends(SUBS, clock, failing)
         /\ SUBS' = JobStore(SUBS, clock, DuePairs(SUBS, clock) \ failing)
    /\ call' = [op |-> "check_reminders_job"]
    /\ UNCHANGED <<scraperlocals, result, ChatState, _COUNTS_CACHE, clock>>

\* one run of check_reminders_job
check_reminders_job ==
    /\ Len(log) + Cardinality(DuePairs(SUBS, clock)) <= MaxSends
    /\ \E failing \in SUBSET DuePairs(SUBS, clock) :
         /\ log' = log \o JobSends(SUBS, clock, failing)
         /\ SUBS' = JobStore(SUBS, clock, DuePairs(SUBS, clock))
    /\ call' = [op |-> "check_reminders_job"]
    /\ UNCHANGED <<scraperlocals, result, ChatState, _COUNTS_CACHE, clock>>

\* time passes
Tick ==
    /\ \E d \in Steps :
         /\ clock + d <= Epoch + MaxDays * Day
         /\ clock' = clock + d
    /\ UNCHANGED <<scraperlocals, call, result, log, SUBS, ChatState, _COUNTS_CACHE>>

NextRemind ==
    \/ Call_set_map_update_reminder
    \/ Call_mark_map_updated_now
    \/ Callback_updremind
    \/ check_reminders_job
    \/ Tick

SpecRemind == InitBot /\ [][NextRemind]_vars

-----------------------------------------------------------------------------
(* Subscriptions *)

\* add_map_sub: SUBS afterwards
add_map_sub(subs, chat_id, code, thr) ==
    LET s1 == subs_bucket(subs, chat_id)
        k == ChatKey(chat_id)
        b == s1[k].maps
        i == Find(b, "code", code)
    IN  IF i # 0
        THEN [s1 EXCEPT ![k].maps[i].threshold = Some(thr),
                        ![k].maps[i].last_players = None]
        ELSE [s1 EXCEPT ![k].maps =
                 Append(b, [code |-> code, threshold |-> Some(thr), last_players |-> None,
                            growth_delta |-> None, growth_window |-> None])]

\* add_creator_sub: SUBS afterwards
add_creator_sub(subs, chat_id, name, thr) ==
    LET s1 == subs_bucket(subs, chat_id)
        k == ChatKey(chat_id)
        b == s1[k].creators
        i == Find(b, "name", name)
    IN  IF i # 0
        THEN [s1 EXCEPT ![k].creators[i].threshold = Some(thr),
                        ![k].creators[i].last_players = None]
        ELSE [s1 EXCEPT ![k].creators =
                 Append(b, [name |-> name, threshold |-> Some(thr), last_players |-> None,
                            growth_delta |-> None, growth_window |-> None])]

\* add_map_growth_sub: SUBS afterwards; a record made here has no threshold
add_map_growth_sub(subs, chat_id, code, delta, window_min) ==
    LET s1 == subs_bucket(subs, chat_id)
        k == ChatKey(chat_id)
        b == s1[k].maps
        i == Find(b, "code", code)
    IN  IF i # 0
        THEN [s1 EXCEPT ![k].maps[i].growth_delta = Some(delta),
                        ![k].maps[i].growth_window = Some(window_min)]
        ELSE [s1 EXCEPT ![k].maps =
                 Append(b, [code |-> code, threshold |-> None, last_players |-> None,
                            growth_delta |-> Some(delta),
                            growth_window |-> Some(window_min)])]

\* add_creator_growth_sub: SUBS afterwards
add_creator_growth_sub(subs, chat_id, name, delta, window_min) ==
    LET s1 == subs_bucket(subs, chat_id)
        k == ChatKey(chat_id)
        b == s1[k].creators
        i == Find(b, "name", name)
    IN  IF i # 0
        THEN [s1 EXCEPT ![k].creators[i].growth_delta = Some(delta),
                        ![k].creators[i].growth_window = Some(window_min)]
        ELSE [s1 EXCEPT ![k].creators =
                 Append(b, [name |-> name, threshold |-> None, last_players |-> None,
                            growth_delta |-> Some(delta),
                            growth_window |-> Some(window_min)])]

MaxRecords == 3
Codes == {IslandCode, CodeB}
Names == {CreatorX}
Thresholds == {75, 100}
\* the defaults of BOT_GROWTH_DELTA and BOT_GROWTH_WINDOW
GrowthDelta == 25
GrowthWindow == 15
SubsDays == {1, 4}

\* the number of records SUBS holds
RECURSIVE RecordsIn(_, _)
RecordsIn(subs, keys) ==
    IF keys = {} THEN 0
    ELSE LET k == CHOOSE x \in keys : TRUE
         IN  Len(subs[k].maps) + Len(subs[k].creators) + Len(subs[k].reminders)
               + RecordsIn(subs, keys \ {k})
Records(subs) == RecordsIn(subs, DOMAIN subs)

Call_add_map_sub ==
    /\ Records(SUBS) < MaxRecords
    /\ \E chat_id \in Chats, code \in Codes, thr \in Thresholds :
         /\ SUBS' = add_map_sub(SUBS, chat_id, code, thr)
         /\ call' = [op |-> "add_map_sub", chat_id |-> chat_id, list |-> "maps",
                     ident |-> code]
    /\ UNCHANGED <<scraperlocals, result, log, ChatState, _COUNTS_CACHE, clock>>

Call_add_creator_sub ==
    /\ Records(SUBS) < MaxRecords
    /\ \E chat_id \in Chats, name \in Names, thr \in Thresholds :
         /\ SUBS' = add_creator_sub(SUBS, chat_id, name, thr)
         /\ call' = [op |-> "add_creator_sub", chat_id |-> chat_id, list |-> "creators",
                     ident |-> name]
    /\ UNCHANGED <<scraperlocals, result, log, ChatState, _COUNTS_CACHE, clock>>

Call_add_map_growth_sub ==
    /\ Records(SUBS) < MaxRecords
    /\ \E chat_id \in Chats, code \in Codes :
         /\ SUBS' = add_map_growth_sub(SUBS, chat_id, code, GrowthDelta, GrowthWindow)
         /\ call' = [op |-> "add_map_growth_sub", chat_id |-> chat_id, list |-> "maps",
                     ident |-> code]
    /\ UNCHANGED <<scraperlocals, result, log, ChatState, _COUNTS_CACHE, clock>>

Call_add_creator_growth_sub ==
    /\ Records(SUBS) < MaxRecords
    /\ \E chat_id \in Chats, name \in Names :
         /\ SUBS' = add_creator_growth_sub(SUBS, chat_id, name, GrowthDelta, GrowthWindow)
         /\ call' = [op |-> "add_creator_growth_sub", chat_id |-> chat_id,
                     list |-> "creators", ident |-> name]
    /\ UNCHANGED <<scraperlocals, result, log, ChatState, _COUNTS_CACHE, clock>>

\* set_map_update_reminder, called for any chat and code
Call_set_reminder ==
    /\ Records(SUBS) < MaxRecords
    /\ \E chat_id \in Chats, code \in Codes, days \in SubsDays :
         /\ SUBS' = set_map_update_reminder(SUBS, chat_id, code, days, clock)
         /\ call' = [op |-> "set_map_update_reminder", chat_id |-> chat_id,
                     list |-> "reminders", ident |-> code]
    /\ UNCHANGED <<scraperlocals, result, log, ChatState, _COUNTS_CACHE, clock>>

\* mark_map_updated_now, called for any chat and code
Call_mark_updated ==
    /\ Records(SUBS) < MaxRecords
    /\ \E chat_id \in Chats, code \in Codes :
         /\ SUBS' = mark_map_updated_now(SUBS, chat_id, code, clock)
         /\ call' = [op |-> "mark_map_updated_now", chat_id |-> chat_id,
                     list |-> "reminders", ident |-> code]
    /\ UNCHANGED <<scraperlocals, result, log, ChatState, _COUNTS_CACHE, clock>>

NextSubs ==
    \/ Call_add_map_sub
    \/ Call_add_creator_sub
    \/ Call_add_map_growth_sub
    \/ Call_add_creator_growth_sub
    \/ Call_set_reminder
    \/ Call_mark_updated

SpecSubs == InitBot /\ [][NextSubs]_vars

-----------------------------------------------------------------------------
(* One-shot threshold input *)

\* chat_settings: STATE with the chat's settings made if they were not there;
\* await_thr is None while the settings have no "await_thr" key
chat_settings(state, chat_id) ==
    IF ChatKey(chat_id) \in DOMAIN state THEN state
    ELSE DictSet(state, ChatKey(chat_id),
                 [hide_epic |-> TRUE, last_msg_id |-> None, await_thr |-> None])

\* set_pending_threshold: STATE afterwards
set_pending_threshold(state, chat_id, target, ident) ==
    [chat_settings(state, chat_id) EXCEPT
        ![ChatKey(chat_id)].await_thr = Some([target |-> target, id |-> ident])]

\* re.fullmatch(r"\d{1,6}", t), for a non-empty t
threshold_text(t) ==
    t # <<>> /\ Len(t) <= 6 /\ \A i \in 1..Len(t) : t[i] \in DigitChars

\* the texts of the messages: a threshold, one with blanks around it, one of
\* seven digits, a word, and the empty text
Messages == {<<"7", "5">>, <<" ", "5", " ">>, <<"1", "2", "3", "4", "5", "6", "7">>,
             <<"a", "b", "c">>, <<>>}

\* the callback of the button "set a threshold" of a map card
Callback_alert_map_custom ==
    /\ \E chat_id \in Chats :
         /\ ChatState' = set_pending_threshold(ChatState, chat_id, "map", IslandCode)
         /\ call' = [op |-> "alert_map_custom", chat_id |-> chat_id, text |-> IslandCode,
                     ok |-> TRUE]
    /\ UNCHANGED <<scraperlocals, result, log, SUBS, _COUNTS_CACHE, clock>>

\* the callback of the button "set a threshold" of a creator card
Callback_alert_creator_custom ==
    /\ \E chat_id \in Chats :
         /\ ChatState' = set_pending_threshold(ChatState, chat_id, "creator", CreatorX)
         /\ call' = [op |-> "alert_creator_custom", chat_id |-> chat_id,
                     text |-> CreatorX, ok |-> TRUE]
    /\ UNCHANGED <<scraperlocals, result, log, SUBS, _COUNTS_CACHE, clock>>

\* text_router on one message; ok tells whether the reply_text that confirms a
\* threshold goes through.  If it raises, the handler's "except: pass" skips the
\* removal of await_thr and the text is routed on as a lookup.  The cards a
\* lookup sends change neither SUBS nor await_thr.
text_router ==
    /\ \E chat_id \in Chats, text \in Messages, ok \in BOOLEAN :
         LET t == Strip(text)
             k == ChatKey(chat_id)
             s1 == chat_settings(ChatState, chat_id)
             pend == s1[k].await_thr
         IN  /\ call' = [op |-> "text_router", chat_id |-> chat_id, text |-> text,
                         ok |-> ok]
             /\ IF pend # None /\ threshold_text(t)
                THEN /\ SUBS' = IF The(pend).target = "map"
                                THEN add_map_sub(SUBS, chat_id, The(pend).id, StrToInt(t))
                                ELSE IF The(pend).target = "creator"
                                THEN add_creator_sub(SUBS, chat_id, The(pend).id, StrToInt(t))
                                ELSE SUBS
                     /\ ChatState' = IF ok THEN [s1 EXCEPT ![k].await_thr = None] ELSE s1
                ELSE /\ ok
                     /\ SUBS' = SUBS
                     /\ ChatState' = s1
    /\ UNCHANGED <<scraperlocals, result, log, _COUNTS_CACHE, clock>>

NextThreshold ==
    \/ Callback_alert_map_custom
    \/ Callback_alert_creator_custom
    \/ text_router

SpecThreshold == InitBot /\ [][NextThreshold]_vars

-----------------------------------------------------------------------------
(* Counts cache *)

\* a variant that serves a stored value whatever its age
_cache_get_any_age(cache, name, ttl_sec, t) ==
    IF cache[name].ts # None THEN cache[name].val ELSE None

\* _cache_get at time t: the stored value if it was stored less than ttl_sec
\* ago, None otherwise (and None if the stored value is None)
_cache_get(cache, name, ttl_sec, t) ==
    IF cache[name].ts # None /\ t - The(cache[name].ts) < ttl_sec
    THEN cache[name].val ELSE None

\* _cache_set at time t: the cache afterwards
_cache_set(cache, name, value, t) ==
    [cache EXCEPT ![name] = [ts |-> Some(t), val |-> value]]

MaxMinutes == 4
MaxRequests == 3
\* ttl_sec: the default
Ttl == 180
\* what a fetch of a counter can give: nothing (the request or the parse
\* failed), zero, a positive count
Counts == {None, Some(0), Some(7)}

\* the request, or the walk of requests, a counter is read with
Fetched(name) == [ev |-> "req", path |-> name, params |-> EmptyDict]

\* try_get_fortnite_players_total (name "fortnite") and
\* try_get_uefn_players_total (name "uefn") at the current time, total being
\* what the fetch gives if one is made
try_get(name, ttl_sec, total) ==
    LET v == _cache_get(_COUNTS_CACHE, name, ttl_sec, clock)
    IN  IF v # None
        THEN /\ result' = Some(v)
             /\ UNCHANGED <<log, _COUNTS_CACHE>>
        ELSE /\ log' = Append(log, Fetched(name))
             /\ _COUNTS_CACHE' = _cache_set(_COUNTS_CACHE, name, total, clock)
             /\ result' = Some(total)

Call_try_get_fortnite_players_total ==
    /\ Len(log) < MaxRequests
    /\ \E total \in Counts : try_get("fortnite", Ttl, total)
    /\ call' = [op |-> "try_get_fortnite_players_total", name |-> "fortnite",
                ttl_sec |-> Ttl]
    /\ UNCHANGED <<scraperlocals, SUBS, ChatState, clock>>

Call_try_get_uefn_players_total ==
    /\ Len(log) < MaxRequests
    /\ \E total \in Counts : try_get("uefn", Ttl, total)
    /\ call' = [op |-> "try_get_uefn_players_total", name |-> "uefn", ttl_sec |-> Ttl]
    /\ UNCHANGED <<scraperlocals, SUBS, ChatState, clock>>

\* a minute passes
TickMinute ==
    /\ clock < Epoch + MaxMinutes * 60
    /\ clock' = clock + 60
    /\ UNCHANGED <<scraperlocals, call, result, log, SUBS, ChatState, _COUNTS_CACHE>>

NextCache ==
    \/ Call_try_get_fortnite_players_total
    \/ Call_try_get_uefn_players_total
    \/ TickMinute

SpecCache == InitBot /\ [][NextCache]_vars

-----------------------------------------------------------------------------
(* What the log and the site's answers say, for the properties below *)

IsIter == call.op = "iter_creative_list"
IsCreator == call.op = "fetch_creator_stats"
IsDetails == call.op = "fetch_island_details"

ReqPos == {i \in 1..Len(log) : log[i].ev = "req"}
\* the requests for a page of a listing (they carry the ajax marker)
ListingReqs == SelectSeq(log, LAMBDA e : e.ev = "req" /\ "ajax" \in DOMAIN e.params)
YieldedItems ==
    LET ys == SelectSeq(log, LAMBDA e : e.ev = "yield")
    IN  [i \in 1..Len(ys) |-> ys[i].item]
Count(q, e) == Len(SelectSeq(q, LAMBDA x : x = e))

\* the part of the log that belongs to the k-th request
NthReq(k) == CHOOSE i \in ReqPos : Cardinality({j \in ReqPos : j <= i}) = k
Segment(k) ==
    SubSeq(log, NthReq(k),
           IF k = Cardinality(ReqPos) THEN Len(log) ELSE NthReq(k + 1) - 1)

IsListingResp(r) == "status" \in DOMAIN r
EnvOf(r) == IF r.json # None THEN The(r.json) ELSE The(r.text)
GoodPage(r) == r.status = 200 /\ (r.json # None \/ r.text # None) /\ EnvOf(r).isdict
PageEntries(r) == parse_islands_html(GetOr(EnvOf(r).islands))
PagesOf(r) == GetOr(EnvOf(r).pages)
\* the fragment holds a link to page n exactly, written the way the listing writes it
LinksPlainlyTo(r, n) == Contains(PagesOf(r), CreativePageEq \o IntToStr(n) \o <<">">>)
\* the fragment holds a link to page n exactly, in any form
LinksTo(r, n) == Contains(PagesOf(r), PageEq \o IntToStr(n) \o <<">">>)
LinksBeyond(r, n) == \E m \in (n + 1)..(FarPage + MaxLink + 1) : LinksTo(r, m)
IsPrefix(p, q) == Len(p) <= Len(q) /\ SubSeq(q, 1, Len(p)) = p

RECURSIVE PlayersSum(_)
PlayersSum(its) ==
    IF its = <<>> THEN 0
    ELSE (IF Head(its).players_now = None THEN 0 ELSE The(Head(its).players_now))
            + PlayersSum(Tail(its))

-----------------------------------------------------------------------------
(* Properties *)

\* C1: with no page cap, when page 1 links to page 2 and page 2 links to no later
\* page, iter_creative_list requests exactly pages 1 and 2, yields the entries of
\* page 1 and then those of page 2, and ends.
C1_PaginationTermination ==
    (IsIter /\ call.max_pages = None /\ Len(served) >= 1 /\ GoodPage(served[1])
        /\ LinksPlainlyTo(served[1], 2))
    => /\ pc = "done" => Len(served) >= 2
       /\ (Len(served) >= 2 /\ GoodPage(served[2]) /\ ~LinksBeyond(served[2], 2))
          => /\ Len(served) = 2
             /\ Len(ListingReqs) = 2
             /\ "page" \notin DOMAIN ListingReqs[1].params
             /\ ListingReqs[2].params["page"] = <<"2">>
             /\ pc \in {"iter_yield", "iter_advance", "done"}
             /\ IsPrefix(YieldedItems, PageEntries(served[1]) \o PageEntries(served[2]))
             /\ pc = "done" =>
                  YieldedItems = PageEntries(served[1]) \o PageEntries(served[2])

C1_Witness ==
    /\ IsIter /\ call.max_pages = None /\ pc = "done" /\ Len(served) = 2
    /\ LinksPlainlyTo(served[1], 2) /\ ~LinksBeyond(served[2], 2)
    /\ Len(YieldedItems) = 4

\* C2: with an explicit page cap n, iter_creative_list and fetch_creator_stats
\* issue at most n listing-page requests.
C2_PageCap ==
    ((IsIter \/ IsCreator) /\ call.max_pages # None)
    => Len(ListingReqs) <= The(call.max_pages)

\* C3: iter_creative_list requests the pages 1, 2, 3, ... in turn, and requests
\* page n+1 only when the page-links fragment of page n holds a link to page
\* number n+1 exactly.
C3_NextPageExact ==
    IsIter =>
      \A k \in 1..Len(ListingReqs) :
         /\ k = 1 => "page" \notin DOMAIN ListingReqs[k].params
         /\ k > 1 => /\ ListingReqs[k].params["page"] = IntToStr(k)
                     /\ LinksTo(served[k - 1], k)

\* C4: when the request for page k is answered with a non-success status, the
\* iteration raises, page k is the last page requested, and the entries of pages
\* 1..k-1 were all yielded, unchanged and in order, before the error.
C4_TransportErrorStops ==
    IsIter =>
      \A k \in 1..Len(served) :
         served[k].status # 200 =>
            /\ k = Len(served)
            /\ Len(ListingReqs) = k
            /\ pc = "raised"
            /\ log[Len(log)] = Raised("HTTPError")
            /\ YieldedItems = Flatten([j \in 1..(k - 1) |-> PageEntries(served[j])])

C4_Witness ==
    /\ IsIter /\ pc = "raised" /\ Len(served) = 2 /\ served[2].status # 200
    /\ Len(YieldedItems) = 2

\* C5: each listing or creator response costs one request; its body is decoded
\* once as structured JSON and, only when that fails, once more from the raw text;
\* when both fail the call raises there and the page gives no entries.
C5_DecodeFallbackOnce ==
    (IsIter \/ IsCreator) =>
      /\ Cardinality(ReqPos) = Len(served)
      /\ \A k \in 1..Len(served) :
            (IsListingResp(served[k]) /\ served[k].status = 200) =>
               LET seg == Segment(k)
               IN  /\ Count(seg, Decoded("json")) = 1
                   /\ Count(seg, Decoded("text"))
                         = (IF served[k].json = None THEN 1 ELSE 0)
                   /\ (served[k].json = None /\ served[k].text = None) =>
                         /\ k = Len(served)
                         /\ pc = "raised"
                         /\ log[Len(log)] = Raised("JSONDecodeError")
                         /\ \A i \in 1..Len(seg) : seg[i].ev # "yield"
                         /\ IsCreator =>
                              items = Flatten([j \in 1..(k - 1) |->
                                                  PageEntries(served[j])])
                   /\ (served[k].json = None /\ served[k].text # None
                         /\ k < Len(served)) =>
                         IsPrefix(Flatten([j \in 1..k |-> PageEntries(served[j])]),
                                  IF IsIter THEN YieldedItems ELSE items)

C5_Witness ==
    /\ IsIter /\ pc = "raised" /\ Len(served) = 2
    /\ served[1].status = 200 /\ served[1].json = None /\ served[1].text # None
    /\ served[2].status = 200 /\ served[2].json = None /\ served[2].text = None

\* C6: with a delay configured, every request is followed by a sleep before the
\* next request and before the return to the caller.
C6_DelayAfterEveryRequest ==
    delay # 0 =>
      \A i \in 1..Len(log) :
         log[i].ev = "req" =>
            \A j \in (i + 1)..Len(log) :
               log[j].ev \in {"req", "return"} =>
                  \E k \in (i + 1)..(j - 1) : log[k] = Slept

\* C7: with hide_epic set every page request of the iteration carries the
\* hideepic parameter; with it unset, and absent from the caller's params, none
\* does.
C7_HideEpicEveryPage ==
    IsIter =>
      \A i \in 1..Len(ListingReqs) :
         /\ call.hide_epic => "hideepic" \in DOMAIN ListingReqs[i].params
         /\ (~call.hide_epic
               /\ (call.params = None \/ "hideepic" \notin DOMAIN The(call.params)))
            => "hideepic" \notin DOMAIN ListingReqs[i].params

C7_Witness ==
    /\ IsIter /\ call.hide_epic /\ Len(ListingReqs) = 3
    /\ \A i \in 1..3 : "hideepic" \in DOMAIN ListingReqs[i].params

\* C8: a CreatorStats returned by fetch_creator_stats has total_players_now equal
\* to the sum of its items' players_now, a missing count taken as 0, and
\* total_maps equal to the number of its items.
C8_CreatorAggregation ==
    (IsCreator /\ result # None) =>
      LET r == The(result)
      IN  /\ r.total_players_now = PlayersSum(r.items)
          /\ r.total_maps = Len(r.items)
          /\ [i \in 1..Len(r.items) |-> r.items[i].players_now]
                = <<Some(10), None, Some(5)>>
             => r.total_players_now = 15 /\ r.total_maps = 3

C8_Witness ==
    /\ IsCreator /\ result # None /\ Len(served) = 3
    /\ [i \in 1..Len(The(result).items) |-> The(result).items[i].players_now]
          = <<Some(10), None, Some(5)>>
    /\ The(result).total_players_now = 15

\* C9: whatever becomes of the avatar request, fetch_creator_stats returns, and
\* the name, the items and the totals it returns are those of the listing pages
\* alone; when the avatar request fails the avatar is null.
C9_AvatarBestEffort ==
    (IsCreator /\ Len(served) >= 1 /\ ~IsListingResp(served[Len(served)])) =>
      LET n == Len(served) - 1
          expected == Flatten([j \in 1..n |-> PageEntries(served[j])])
      IN  /\ pc = "done"
          /\ result # None
          /\ The(result).name = call.name
          /\ The(result).items = expected
          /\ The(result).total_players_now = PlayersSum(expected)
          /\ The(result).total_maps = Len(expected)
          /\ served[Len(served)].kind # "page" => The(result).avatar = None

C9_Witness ==
    /\ IsCreator /\ pc = "done" /\ Len(served) = 3
    /\ served[3].kind = "http_error"
    /\ Len(The(result).items) = 4
    /\ The(result).avatar = None

\* C10: for a fragment with K island cards parse_islands_html returns K entries,
\* the i-th of them built from the i-th card of the document.
CardPos == {i \in 1..Len(html_in) :
              html_in[i].tag = "a" /\ "island" \in html_in[i].classes}
NthCard(k) == html_in[CHOOSE i \in CardPos : Cardinality({j \in CardPos : j <= i}) = k]
C10_ExtractorOrder ==
    parsed # None =>
      /\ Len(The(parsed)) = Cardinality(CardPos)
      /\ \A k \in 1..Cardinality(CardPos) : The(parsed)[k] = CardItem(NthCard(k))

C10_Witness ==
    /\ parsed # None /\ Cardinality(CardPos) = 2 /\ Len(html_in) = 3
    /\ The(parsed)[1].title = Some(<<"C">>) /\ The(parsed)[2].title = Some(<<"A">>)

\* C11: a card with no rank label, or a rank label that is no number, and with no
\* code in its link makes parse_islands_html return an entry with rank and code
\* null, and the other cards of the fragment give the entries they give when the
\* malformed card is absent.
Without(s, i) == SubSeq(s, 1, i - 1) \o SubSeq(s, i + 1, Len(s))
IsNumber(t) == t # <<>> /\ \A i \in 1..Len(t) : t[i] \in DigitChars
Malformed(el) ==
    /\ el.tag = "a" /\ "island" \in el.classes
    /\ el.rank = None \/ ~IsNumber(Strip(The(el.rank)))
    /\ el.href = None \/ ~Contains(The(el.href), CodeEq)
C11_MalformedCardTolerance ==
    parsed # None =>
      \A i \in CardPos :
        Malformed(html_in[i]) =>
          LET k == Cardinality({j \in CardPos : j <= i})
          IN  /\ k <= Len(The(parsed))
              /\ The(parsed)[k].rank = None
              /\ The(parsed)[k].code = None
              /\ Without(The(parsed), k) = parse_islands_html(Without(html_in, i))

C11_Witness ==
    /\ parsed # None /\ Len(html_in) = 3 /\ Len(The(parsed)) = 3
    /\ Malformed(html_in[2]) /\ html_in[2].rank # None
    /\ ~Malformed(html_in[1]) /\ ~Malformed(html_in[3])
    /\ The(parsed)[2].rank = None /\ The(parsed)[2].code = None
    /\ The(parsed)[1].code # None /\ The(parsed)[3].rank # None

\* C12: for every text <int>(,<3 digits>)* _parse_int and _toint return the integer
\* the text stands for once its separators are removed, and for the empty text
\* they return null.
C12_PlainInteger ==
    call.op \in {"_parse_int", "_toint"} =>
      /\ pc = "done"
      /\ call.text = Some(<<>>) => result = Some(None)
      /\ \A g \in GroupedInputs :
           call.text = Some(GroupedText(g)) => result = Some(Some(GroupedValue(g)))

C12_Witness ==
    /\ call.op = "_toint" /\ pc = "done"
    /\ call.text = Some(<<"1", "2", ",", "3", "4", "5">>)
    /\ result = Some(Some(12345))

\* C13: for every text <number>[KMB] _toint_abbrev returns the number times the
\* multiplier of its suffix, rounded to the nearest integer.
C13_AbbrevNearest ==
    call.op = "_toint_abbrev" =>
      \A a \in AbbrevInputs :
        call.text = Some(AbbrevText(a)) =>
          /\ result # None /\ result # Some(None)
          /\ LET v == The(The(result))
                 m == StrToInt(a.int \o a.frac)
                 f == Len(a.frac)
                 z == AbbrevZeros(a)
             IN  IF f <= z THEN v = m * Pow10(z - f)
                 ELSE LET den == Pow10(f - z)
                          diff == v * den - m
                      IN  2 * (IF diff < 0 THEN -diff ELSE diff) <= den

\* C14: for every N and unit, "<N> <unit>[s] ago" read at clock T gives
\* T - N * multiplier, with multipliers 1, 60, 3600, 86400, 604800, 30 * 86400
\* and 365 * 86400.
Multipliers == <<1, 60, 3600, 86400, 604800, 30 * 86400, 365 * 86400>>
C14_RelativeDates ==
    call.op = "_parse_updated_text_to_ts" =>
      \A r \in RelInputs :
        call.text = Some(RelText(r)) =>
          result = Some(Some(call.now - r.n * Multipliers[r.unit]))

C14_Witness ==
    /\ call.op = "_parse_updated_text_to_ts" /\ pc = "done"
    /\ call.text = Some(<<"3", " ", "d", "a", "y", "s", " ", "a", "g", "o">>) /\ call.now = 1700000000
    /\ result = Some(Some(1700000000 - 259200))

\* C15, as stated: _parse_updated_text_to_ts returns null for every text that
\* is neither a relative phrase "<N> <unit> ago" nor a date in one of the five
\* formats, "3 days" among them.
C15_DateMissNull ==
    call.op = "_parse_updated_text_to_ts" /\ call.text # None
      /\ The(call.text) \in MissTexts \cup DayTexts \cup NoNumberTexts
    => result = Some(None)

\* C15, amended: _parse_updated_text_to_ts returns null for every text that is
\* neither a relative phrase, nor a date in one of the five formats, nor a text
\* in which a number is followed by "day"; for such a text "<N> day..." it
\* returns now - N * 86400.
C15_DateMissNull_Amended ==
    call.op = "_parse_updated_text_to_ts" /\ call.text # None =>
      /\ The(call.text) \in MissTexts \cup NoNumberTexts => result = Some(None)
      /\ The(call.text) = <<"3", " ", "d", "a", "y", "s">> => result = Some(Some(call.now - 3 * 86400))
      /\ The(call.text) = <<"1", "0", " ", "d", "a", "y", "s", " ", "l", "e", "f", "t">> => result = Some(Some(call.now - 10 * 86400))

C15_Witness ==
    /\ call.op = "_parse_updated_text_to_ts" /\ pc = "done"
    /\ call.text = Some(<<"2", "0", "2", "3", "-", "0", "2", "-", "2", "9">>)
    /\ result = Some(None)

\* C16: _parse_int, _toint, _toint_abbrev and _parse_updated_text_to_ts return
\* null, and do not raise, for null, for the empty text, for blank text and for
\* every text that holds no digit.
NoDigit(t) == \A i \in 1..Len(t) : t[i] \notin DigitChars
C16_MissesNeverRaise ==
    /\ call.op \in {"_parse_int", "_toint", "_toint_abbrev", "_parse_updated_text_to_ts"}
    /\ call.text = None \/ NoDigit(The(call.text))
    => pc = "done" /\ result = Some(None)

C16_Witness ==
    /\ call.op = "_toint_abbrev" /\ pc = "done"
    /\ call.text = Some(<<"n", "/", "a">>)
    /\ result = Some(None)


\* C17: the image is the result of the first step that succeeds, in the order
\* thumbnail, background-image url(...), og:image, twitter image on the fragment
\* page and then thumbnail, og:image on the page of a second request; a step
\* that finds no element or no usable URL lets the next step run, and the
\* second request is made only when the four steps on the fragment page fail.
Usable(u) == u # None /\ The(u) # <<>>
RECURSIVE FirstOf(_)
FirstOf(steps) ==
    IF steps = <<>> THEN None
    ELSE IF steps[1] # None THEN steps[1] ELSE FirstOf(Tail(steps))
StepThumb(pg) ==
    IF pg.thumb # None /\ Usable(The(pg.thumb).src) THEN _norm_url(The(pg.thumb).src)
    ELSE None
StepBg(pg) ==
    IF pg.bg # None /\ The(pg.bg).style # None
    THEN _norm_url(style_url(The(The(pg.bg).style))) ELSE None
StepOg(pg) ==
    IF pg.og # None /\ Usable(The(pg.og).content) THEN _norm_url(The(pg.og).content)
    ELSE None
StepTw(pg) ==
    IF pg.tw # None /\ Usable(The(pg.tw).content) THEN _norm_url(The(pg.tw).content)
    ELSE None
C17_ImageChainOrder ==
    IsDetails /\ pc = "done" =>
      LET first == FirstOf(<<StepThumb(served[1]), StepBg(served[1]), StepOg(served[1]),
                             StepTw(served[1])>>)
      IN  IF first # None
          THEN Len(served) = 1 /\ The(result).image = first
          ELSE /\ Len(served) = 2
               /\ The(result).image =
                    IF served[2].kind = "page"
                    THEN FirstOf(<<StepThumb(served[2]), StepOg(served[2])>>)
                    ELSE None

\* C18: a fragment page with an og:image and neither thumbnail nor background
\* element gives image = the og:image content normalized ("//" gets "https:"
\* in front, "/" gets the site origin in front, anything else stays), and no
\* second request is made.
OgCases ==
    {[content |-> OgSrc, image |-> <<"h", "t", "t", "p", "s", ":", "/", "/", "o", ".", "p", "n", "g">>],
     [content |-> OgRootSrc, image |-> <<"h", "t", "t", "p", "s", ":", "/", "/", "f", "o", "r", "t", "n", "i", "t", "e", ".", "g", "g", "/", "o", ".", "p", "n", "g">>],
     [content |-> OgAbsSrc, image |-> <<"h", "t", "t", "p", ":", "/", "/", "x", "/", "o", ".", "p", "n", "g">>]}
C18_OgImageFallback ==
    IsDetails /\ Len(served) >= 1 =>
      \A c \in OgCases :
        /\ served[1].kind = "page"
        /\ served[1].thumb = None /\ served[1].bg = None
        /\ served[1].og = Some([content |-> Some(c.content)])
        => /\ pc = "done"
           /\ Len(served) = 1 /\ Cardinality(ReqPos) = 1
           /\ The(result).image = Some(c.image)

C18_Witness ==
    /\ IsDetails /\ pc = "done" /\ Len(served) = 1
    /\ served[1].kind = "page" /\ served[1].thumb = None /\ served[1].bg = None
    /\ served[1].og = Some([content |-> Some(OgSrc)]) /\ served[1].tw # None
    /\ The(result).image = Some(<<"h", "t", "t", "p", "s", ":", "/", "/", "o", ".", "p", "n", "g">>)

\* C19: a non-success status of the primary request makes fetch_island_details
\* raise and return no record; a failure of the secondary request is suppressed,
\* and the record returned then has the fields read from the primary response
\* and image null.
C19_DetailErrorPolicy ==
    IsDetails /\ Len(served) >= 1 =>
      /\ served[1].kind = "http_error" =>
           pc = "raised" /\ result = None /\ Len(served) = 1
      /\ Len(served) = 2 /\ served[2].kind # "page" =>
           /\ pc = "done"
           /\ result = Some([primary_fields(served[1]) EXCEPT !.image = None])

C19_Witness ==
    /\ IsDetails /\ pc = "done" /\ Len(served) = 2
    /\ served[2].kind = "http_error"
    /\ The(result).image = None
    /\ The(result).name = Some(<<"M", "a", "p">>) /\ The(result).code = Some(IslandCode)
    /\ The(result).description = Some(<<"F", "u", "n", " ", " ", "F", "u", "n", " ", "m", "a", "p">>)

\* C20: for a bare code, for a query string holding code=C (with or without a
\* path and "?" in front) and for a full URL, fetch_island_details does not
\* raise before its primary request, and that request goes to the canonical
\* detail URL with "&ajax" added if the URL has a query and "?ajax" if not.
CanonicalAjax(code_or_url) ==
    LET url == IF StartsWith(code_or_url, Http) THEN code_or_url
               ELSE BASE \o IslandQ \o CodeEq \o IslandCode
    IN  url \o (IF Contains(url, <<"?">>) THEN AmpAjax ELSE QAjax)
C20_InputNormalization ==
    IsDetails =>
      /\ ~(pc = "raised" /\ ReqPos = {})
      /\ ReqPos # {} =>
           log[CHOOSE i \in ReqPos : \A j \in ReqPos : i <= j].url
             = CanonicalAjax(call.code_or_url)

\* C21 (as stated): whenever the code field of a record returned by
\* fetch_island_details is present, it consists of four groups of four digits
\* separated by hyphens.
Groups(w, n) ==
    /\ Len(w) = 5 * n - 1
    /\ \A k \in 1..Len(w) : IF k % 5 = 0 THEN w[k] = "-" ELSE w[k] \in DigitChars
C21_CodeFourGroups ==
    IsDetails /\ pc = "done" /\ The(result).code # None
      => Groups(The(The(result).code), 4)

\* C21 (amended): whenever the code field of a record returned by
\* fetch_island_details is present, it consists of three groups of four digits
\* separated by hyphens, also when the page holds a longer digit string.
C21_CodeThreeGroups ==
    IsDetails /\ pc = "done" /\ The(result).code # None
      => Groups(The(The(result).code), 3)

C21_Witness ==
    /\ IsDetails /\ pc = "done" /\ served[1].raw = LongRaw
    /\ The(result).code = Some(IslandCode)

\* C22: given a URL, fetch_creator_stats takes the value of the URL's name query
\* parameter as the creator name, and given a non-URL input it takes the input
\* verbatim; that name is sent in every creator listing request and is stored in
\* CreatorStats.name.
ResolvedName(name_or_url) ==
    CASE name_or_url = CreatorUrl -> <<"x">>
      [] name_or_url = CreatorUrlAB -> <<"a", " ", "b">>
      [] OTHER -> name_or_url
C22_CreatorNameResolution ==
    IsCreator =>
      /\ \A i \in 1..Len(ListingReqs) :
           ListingReqs[i].params["name"] = ResolvedName(call.name_or_url)
      /\ pc = "done" => The(result).name = ResolvedName(call.name_or_url)

C22_Witness ==
    /\ IsCreator /\ pc = "done" /\ call.name_or_url = CreatorUrlAB
    /\ Len(ListingReqs) >= 2
    /\ The(result).name = <<"a", " ", "b">>

\* C23: when the image chain reaches its last resort, the second request of
\* fetch_island_details goes to the island's detail URL, the URL of the primary
\* request without its ajax marker, which still carries the island's code.
C23_SecondaryTarget ==
    IsDetails /\ Cardinality(ReqPos) = 2 =>
      LET second == log[CHOOSE i \in ReqPos : \A j \in ReqPos : i >= j]
      IN  /\ second.url = The(call.url)
          /\ Contains(second.url, IslandCode)

\* the notifications a step adds to the log for the record at position i of
\* the chat with key k
NewSends(k, i) ==
    {n \in (Len(log) + 1)..Len(log') :
        /\ log'[n].ev = "send_message"
        /\ log'[n].chat_id = StrToInt(k)
        /\ log'[n].code = SUBS[k].reminders[i].code}

\* C24: while a reminder stays active and the map is not marked updated, the
\* job keeps notifying, once per elapsed interval_days period: a run of
\* check_reminders_job that finds an active reminder whose last notification
\* is a full interval or more back notifies the chat again.
C24_PeriodicReminders ==
    [][check_reminders_job =>
         \A k \in DOMAIN SUBS : \A i \in 1..Len(SUBS[k].reminders) :
            LET r == SUBS[k].reminders[i]
            IN  /\ r.active
                /\ r.last_notified_ts # None
                /\ clock >= The(r.last_notified_ts) + r.interval_days * Day
                => NewSends(k, i) # {}]_vars

\* the notifications sent for the reminder of a code in a chat, in order
SendsOf(chat_id, code) ==
    SelectSeq(log, LAMBDA e : e.ev = "send_message" /\ e.chat_id = chat_id /\ e.code = code)

ReminderHits(subs, chat_id, code) ==
    IF ChatKey(chat_id) \notin DOMAIN subs THEN {}
    ELSE {i \in 1..Len(subs[ChatKey(chat_id)].reminders) :
             subs[ChatKey(chat_id)].reminders[i].code = code}

\* C26: after mark_map_updated_now(chat, code) at time T the chat has exactly
\* one reminder record for the code, with last_update_ts = T, last_notified_ts
\* null, active true and interval_days as it was (4 for a new record); and a
\* run of check_reminders_job notifies a reminder whose last_notified_ts is
\* null once if it runs at or after last_update_ts + interval_days * 86400,
\* and not at all if it runs before.
C26_MarkResetsClock ==
    [][/\ Call_mark_map_updated_now =>
            LET before == ReminderHits(SUBS, call'.chat_id, call'.code)
                after == ReminderHits(SUBS', call'.chat_id, call'.code)
                b == SUBS'[ChatKey(call'.chat_id)].reminders
            IN  /\ Cardinality(after) = 1
                /\ \A i \in after :
                     /\ b[i].last_update_ts = clock
                     /\ b[i].last_notified_ts = None
                     /\ b[i].active
                     /\ b[i].interval_days =
                          IF before = {} THEN 4
                          ELSE SUBS[ChatKey(call'.chat_id)].reminders[i].interval_days
       /\ check_reminders_job =>
            \A k \in DOMAIN SUBS : \A i \in 1..Len(SUBS[k].reminders) :
               LET r == SUBS[k].reminders[i]
               IN  r.active /\ r.last_notified_ts = None =>
                     Cardinality(NewSends(k, i)) =
                       IF clock >= r.last_update_ts + r.interval_days * Day THEN 1 ELSE 0
      ]_vars

C26_Witness ==
    \E chat_id \in Chats, code \in RemindCodes :
       LET ss == SendsOf(chat_id, code)
       IN  /\ Len(ss) = 2
           /\ ss[2].rec.last_update_ts >= ss[1].at
           /\ ss[2].rec.last_notified_ts = None
           /\ ss[2].rec.interval_days = ss[1].rec.interval_days
           /\ ss[2].at = ss[2].rec.last_update_ts + ss[2].rec.interval_days * Day

\* C27: when the send_message of a due reminder raises, check_reminders_job
\* still sets the reminder's last_notified_ts to now, and with it the reminder
\* is no longer due for that period, so the notification is not retried.
C27_FailedSendConsumed ==
    [][check_reminders_job =>
         \A k \in DOMAIN SUBS : \A i \in 1..Len(SUBS[k].reminders) :
            \A n \in NewSends(k, i) :
               ~log'[n].ok =>
                 LET r == SUBS'[k].reminders[i]
                 IN  /\ r.last_notified_ts = Some(clock)
                     /\ clock >= r.last_update_ts + r.interval_days * Day
                     /\ \A t \in {clock + d * Day : d \in 0..MaxDays} :
                          ~reminder_due(r, t)]_vars

C27_Witness ==
    \E chat_id \in Chats, code \in RemindCodes :
       LET ss == SendsOf(chat_id, code)
       IN  /\ Len(ss) = 1 /\ ~ss[1].ok
           /\ call.op = "check_reminders_job"
           /\ clock > ss[1].at
           /\ reminder_of(SUBS, chat_id, code).last_notified_ts = Some(ss[1].at)

\* no two records of the list share the key: the code of a map subscription or
\* a reminder, the name of a creator subscription
UniqueMaps(list) == \A i, j \in 1..Len(list) : list[i].code = list[j].code => i = j
UniqueCreators(list) == \A i, j \in 1..Len(list) : list[i].name = list[j].name => i = j

\* the keys of a list of a bucket, in order
ListKeys(bucket, list) ==
    CASE list = "maps" -> [i \in 1..Len(bucket.maps) |-> bucket.maps[i].code]
      [] list = "creators" -> [i \in 1..Len(bucket.creators) |-> bucket.creators[i].name]
      [] list = "reminders" -> [i \in 1..Len(bucket.reminders) |-> bucket.reminders[i].code]

\* C28: starting from an empty store, after any sequence of add_map_sub,
\* add_map_growth_sub, add_creator_sub, add_creator_growth_sub,
\* set_map_update_reminder and mark_map_updated_now calls, each chat's maps
\* have at most one record per code, its creators at most one per name and its
\* reminders at most one per code; an add for a key that is there updates the
\* record in place, and an add for one chat never changes another chat's records.
C28_SubscriptionUniqueness ==
    [][NextSubs =>
         LET k == ChatKey(call'.chat_id)
             old == IF k \in DOMAIN SUBS THEN SUBS[k]
                    ELSE [maps |-> <<>>, creators |-> <<>>, reminders |-> <<>>]
             keys == ListKeys(old, call'.list)
         IN  /\ \A c \in DOMAIN SUBS' :
                  /\ UniqueMaps(SUBS'[c].maps)
                  /\ UniqueCreators(SUBS'[c].creators)
                  /\ UniqueMaps(SUBS'[c].reminders)
             /\ \A c \in DOMAIN SUBS : c # k => c \in DOMAIN SUBS' /\ SUBS'[c] = SUBS[c]
             /\ ListKeys(SUBS'[k], call'.list) =
                  IF \E i \in 1..Len(keys) : keys[i] = call'.ident THEN keys
                  ELSE Append(keys, call'.ident)
             /\ \A l \in {"maps", "creators", "reminders"} \ {call'.list} :
                  ListKeys(SUBS'[k], l) = ListKeys(old, l)]_vars

C28_Witness ==
    /\ call.op = "add_map_sub"
    /\ ChatKey(1) \in DOMAIN SUBS /\ ChatKey(2) \in DOMAIN SUBS
    /\ Len(SUBS[ChatKey(1)].maps) = 1
    /\ SUBS[ChatKey(1)].maps[1].threshold = Some(100)
    /\ SUBS[ChatKey(1)].maps[1].growth_delta = Some(GrowthDelta)
    /\ Len(SUBS[ChatKey(2)].reminders) = 1

\* the pending threshold target of a chat, None for none
PendingOf(state, chat_id) ==
    IF ChatKey(chat_id) \in DOMAIN state THEN state[ChatKey(chat_id)].await_thr ELSE None

\* the subscription of a chat with the key in the list, as a set of records
SubOf(subs, chat_id, list, ident) ==
    IF ChatKey(chat_id) \notin DOMAIN subs THEN {}
    ELSE IF list = "maps"
    THEN {subs[ChatKey(chat_id)].maps[i] : i \in {n \in 1..Len(subs[ChatKey(chat_id)].maps) :
                                                     subs[ChatKey(chat_id)].maps[n].code = ident}}
    ELSE {subs[ChatKey(chat_id)].creators[i] :
             i \in {n \in 1..Len(subs[ChatKey(chat_id)].creators) :
                       subs[ChatKey(chat_id)].creators[n].name = ident}}

\* C29: after an alert_map_custom or alert_creator_custom callback the chat has
\* that target pending (a later callback replaces it); the next text message of
\* 1 to 6 digits sets the threshold of exactly the pending target's
\* subscription and clears the pending state; a message with no pending state,
\* or one that is no number, creates and changes no subscription, and the
\* latter leaves the pending state as it is.
C29_OneShotThreshold ==
    [][/\ Callback_alert_map_custom =>
            /\ PendingOf(ChatState', call'.chat_id)
                 = Some([target |-> "map", id |-> IslandCode])
            /\ SUBS' = SUBS
       /\ Callback_alert_creator_custom =>
            /\ PendingOf(ChatState', call'.chat_id)
                 = Some([target |-> "creator", id |-> CreatorX])
            /\ SUBS' = SUBS
       /\ text_router =>
            LET chat_id == call'.chat_id
                pend == PendingOf(ChatState, chat_id)
                list == IF The(pend).target = "map" THEN "maps" ELSE "creators"
            IN  /\ pend # None /\ threshold_text(call'.text) =>
                     /\ PendingOf(ChatState', chat_id) = None
                     /\ \E s \in SubOf(SUBS', chat_id, list, The(pend).id) :
                           s.threshold = Some(StrToInt(call'.text))
                     /\ Records(SUBS') =
                          Records(SUBS)
                            + (IF SubOf(SUBS, chat_id, list, The(pend).id) = {} THEN 1 ELSE 0)
                     /\ \A c \in DOMAIN SUBS :
                           c # ChatKey(chat_id) => SUBS'[c] = SUBS[c]
                /\ pend = None => SUBS' = SUBS
                /\ (\A i \in 1..Len(call'.text) : call'.text[i] \notin DigitChars) =>
                     /\ SUBS' = SUBS
                     /\ PendingOf(ChatState', chat_id) = pend
                /\ \A c \in Chats \ {chat_id} :
                     PendingOf(ChatState', c) = PendingOf(ChatState, c)]_vars

\* C30: try_get_fortnite_players_total and try_get_uefn_players_total return
\* the stored value and make no request if and only if a non-null value was
\* stored for the counter less than ttl_sec ago; otherwise they make a request,
\* store what it gave, null included, with the current time, and return it.
C30_CacheFreshness ==
    [][Call_try_get_fortnite_players_total \/ Call_try_get_uefn_players_total =>
         LET entry == _COUNTS_CACHE[call'.name]
             fresh == /\ entry.ts # None /\ entry.val # None
                      /\ clock - The(entry.ts) < call'.ttl_sec
         IN  /\ fresh => /\ log' = log
                         /\ result' = Some(entry.val)
                         /\ _COUNTS_CACHE' = _COUNTS_CACHE
             /\ ~fresh => /\ Len(log') = Len(log) + 1
                          /\ log'[Len(log')].ev = "req"
                          /\ _COUNTS_CACHE'[call'.name] =
                               [ts |-> Some(clock), val |-> The(result')]
                          /\ \A n \in DOMAIN _COUNTS_CACHE \ {call'.name} :
                                _COUNTS_CACHE'[n] = _COUNTS_CACHE[n]]_vars

C30_Witness ==
    /\ call.op = "try_get_uefn_players_total"
    /\ Len(log) = 2
    /\ log[1].path = "uefn" /\ log[2].path = "uefn"
    /\ _COUNTS_CACHE["uefn"] = [ts |-> Some(Epoch + 60), val |-> Some(0)]
    /\ clock = Epoch + 180
    /\ result = Some(Some(0))


=============================================================================
